---- MODULE Spec2Model ----
(***************************************************************************)
(* Caption timing core of the vox-studio backend (src/backend/captions.py) *)
(* and the orchestration that feeds it (src/backend/routes/narration.py).  *)
(*                                                                         *)
(* Text is a sequence of one-character strings.  Times are exact           *)
(* rationals: a time value t carried together with a scale s stands for    *)
(* t / (1000 * s) seconds, so that the proportional slices                 *)
(* duration_seconds * len(sentence) / total_chars are integers.            *)
(***************************************************************************)
EXTENDS Integers, Sequences, FiniteSets, TLC

VARIABLES
    text,                         \* split_into_sentences: the argument
    paragraphs,                   \* text.split("\n\n")
    para_i,                       \* position of `for paragraph in paragraphs`
    parts,                        \* re.split(...) of the current paragraph
    part_i,                       \* position of `for part in parts`
    sentences,                    \* the accepted SentencePiece list
    seen_paragraph,
    first_sentence_in_paragraph,
    pc,                           \* position inside split_into_sentences
    req,                          \* the call made to a caption synthesizer
    out,                          \* what that call produced
    jobs,                         \* the generation_jobs table, in order of insertion
    author,                       \* the author_profiles row of the jobs' author
    issued,                       \* how many job ids uuid4() has given out
    admitted,                     \* how many requests the servers have taken on
    procs                         \* the requests in flight

segVars == <<text, paragraphs, para_i, parts, part_i, sentences,
             seen_paragraph, first_sentence_in_paragraph, pc>>
vttVars == <<req, out>>
jobVars == <<jobs, author, issued, admitted, procs>>
vars == <<segVars, vttVars, jobVars>>

(***************************************************************************)
(* Bounds of the checked instances.                                        *)
(***************************************************************************)
MaxTextLen == 6
MaxSentences == 3
MaxWordLen == 2
MaxClips == 3
MaxAlignLen == 3

\* no narration database in the picture: the caption functions called directly
NoJobs ==
    /\ jobs = <<>>
    /\ author = [present |-> FALSE, credits_used |-> 0, credits_limit |-> 0]
    /\ issued = 0
    /\ admitted = 0
    /\ procs = <<>>

(***************************************************************************)
(* Characters                                                              *)
(***************************************************************************)
Max(a, b) == IF a >= b THEN a ELSE b

Last(s) == s[Len(s)]

\* the characters str.isspace() holds for, which str.strip(), str.split()
\* and \s of a str pattern go by: tab, LF, VT, FF, CR, FS, GS, RS, US, space,
\* NEL, NBSP and the Ogham space mark U+1680.  Python counts seventeen more,
\* U+2000 to U+200A, U+2028, U+2029, U+202F, U+205F and U+3000: a string of
\* this module cannot hold them, and no text of the model contains them.
WhitespaceChars ==
    {" ", "\t", "\n", "\r", "\f", "", "", "", "", "", "", " ", " "}

IsSpace(c) == c \in WhitespaceChars

\* the letters of the two word sets (captions.py:14-25) and their capitals
AsciiUpper ==
    <<"A","B","C","D","E","F","G","H","I","J","K","L","M",
      "N","O","P","Q","R","S","T","U","V","W","X","Y","Z">>

AsciiLower ==
    <<"a","b","c","d","e","f","g","h","i","j","k","l","m",
      "n","o","p","q","r","s","t","u","v","w","x","y","z">>

\* c.lower() == l for a character l of the word sets (a-z and "."): the
\* character itself or its capital A-Z.  No other character lowers to one of
\* them but the Kelvin sign U+212A, to "k", which no word of the sets holds;
\* a character that lowers to two (U+0130) gives a word of another length.
LowersTo(c, l) ==
    \/ c = l
    \/ \E k \in DOMAIN AsciiUpper : AsciiUpper[k] = c /\ AsciiLower[k] = l

\* token.lower() in words (captions.py:46 and 59), words one of the two sets
LowerIn(token, words) ==
    \E w \in words :
        /\ Len(w) = Len(token)
        /\ \A k \in 1..Len(w) : LowersTo(token[k], w[k])

AllSpace(s) == \A k \in 1..Len(s) : IsSpace(s[k])

\* Mutant: strip() forgotten.
StripNothing(s) == s

\* str.strip()
Strip(s) ==
    IF AllSpace(s) THEN <<>>
    ELSE LET nonSpace == {k \in 1..Len(s) : ~IsSpace(s[k])}
             lo == CHOOSE k \in nonSpace : \A j \in nonSpace : k <= j
             hi == CHOOSE k \in nonSpace : \A j \in nonSpace : k >= j
         IN  SubSeq(s, lo, hi)

\* str.split()[-1]: the last whitespace-delimited token, <<>> when there is none
LastToken(s) ==
    LET r == Strip(s)
        spaces == {k \in 1..Len(r) : IsSpace(r[k])}
        from == IF spaces = {} THEN 1
                ELSE 1 + CHOOSE k \in spaces : \A j \in spaces : k >= j
    IN  SubSeq(r, from, Len(r))

\* str.split()[0]: the first whitespace-delimited token, <<>> when there is none
FirstToken(s) ==
    LET r == Strip(s)
        spaces == {k \in 1..Len(r) : IsSpace(r[k])}
        to == IF spaces = {} THEN Len(r)
              ELSE (CHOOSE k \in spaces : \A j \in spaces : k <= j) - 1
    IN  SubSeq(r, 1, to)

\* str.rstrip(chars)
RStripChars(s, chars) ==
    LET keep == {k \in 1..Len(s) : s[k] \notin chars}
    IN  IF keep = {} THEN <<>>
        ELSE SubSeq(s, 1, CHOOSE k \in keep : \A j \in keep : k >= j)

\* str.lstrip(chars)
LStripChars(s, chars) ==
    LET keep == {k \in 1..Len(s) : s[k] \notin chars}
    IN  IF keep = {} THEN <<>>
        ELSE SubSeq(s, CHOOSE k \in keep : \A j \in keep : k <= j, Len(s))

(***************************************************************************)
(* Sentence Segmenter                                                      *)
(***************************************************************************)
NON_TERMINAL_ABBREVIATIONS ==
    { <<"m","r",".">>, <<"m","r","s",".">>, <<"m","s",".">>, <<"d","r",".">>,
      <<"p","r","o","f",".">>, <<"s","r",".">>, <<"j","r",".">>, <<"e","t","c",".">>,
      <<"v","s",".">>, <<"e",".","g",".">>, <<"i",".","e",".">>, <<"a",".","m",".">>,
      <<"p",".","m",".">> }

COMMON_SENTENCE_STARTERS ==
    { <<"a">>, <<"a","n">>, <<"a","n","d">>, <<"b","u","t">>,
      <<"h","e">>, <<"s","h","e">>, <<"i","t">>, <<"i">>,
      <<"y","o","u">>, <<"w","e">>, <<"t","h","e","y">>, <<"t","h","e">>,
      <<"t","h","e","r","e">>, <<"t","h","e","s","e">>, <<"t","h","o","s","e">>, <<"t","h","i","s">>,
      <<"t","h","a","t">>, <<"w","h","a","t">>, <<"w","h","e","n">>, <<"w","h","e","r","e">>,
      <<"w","h","y">>, <<"h","o","w">>, <<"w","h","o">>, <<"w","h","i","c","h">>,
      <<"s","o">>, <<"t","h","e","n">>, <<"n","o","w">> }

\* chars_to_strip of _sentence_ends_with_abbreviation
TrailingStrip == {"\"", "'", ")", "]", "}"}

\* the lstrip argument of _starts_like_new_sentence
LeadingStrip == {"\"", "'", "(", "[", "{"}

SentenceEnd == {".", "!", "?"}

SentencePiece(t, brk) == [text |-> t, paragraph_break_before |-> brk]

\* _sentence_ends_with_abbreviation
SentenceEndsWithAbbreviation(t) ==
    /\ t # <<>>
    /\ LastToken(t) # <<>>
    /\ LowerIn(RStripChars(LastToken(t), TrailingStrip), NON_TERMINAL_ABBREVIATIONS)

\* _starts_like_new_sentence
StartsLikeNewSentence(part) ==
    /\ part # <<>>
    /\ FirstToken(part) # <<>>
    /\ LStripChars(FirstToken(part), LeadingStrip) # <<>>
    /\ LowerIn(LStripChars(FirstToken(part), LeadingStrip), COMMON_SENTENCE_STARTERS)

\* text.split("\n\n")
RECURSIVE SplitParagraphs(_)
SplitParagraphs(t) ==
    LET cuts == {k \in 1..(Len(t) - 1) : t[k] = "\n" /\ t[k + 1] = "\n"}
    IN  IF cuts = {} THEN <<t>>
        ELSE LET k == CHOOSE c \in cuts : \A d \in cuts : c <= d
             IN  <<SubSeq(t, 1, k - 1)>> \o SplitParagraphs(SubSeq(t, k + 2, Len(t)))

\* re.split(r"(?<=[\.!?])\s+", paragraph)
RECURSIVE SplitSentences(_)
\* Mutant: the pattern without its lookbehind, "[.!?]\s+", which consumes the
\* punctuation mark together with the whitespace.
SplitSentencesEatingPunctuation(p) ==
    LET cuts == {k \in 2..Len(p) : IsSpace(p[k]) /\ p[k - 1] \in SentenceEnd}
    IN  IF cuts = {} THEN <<p>>
        ELSE LET k == CHOOSE c \in cuts : \A d \in cuts : c <= d
                 run == {j \in k..Len(p) : \A i \in k..j : IsSpace(p[i])}
                 e == CHOOSE j \in run : \A i \in run : j >= i
             IN  <<SubSeq(p, 1, k - 2)>> \o SplitSentences(SubSeq(p, e + 1, Len(p)))

SplitSentences(p) ==
    LET cuts == {k \in 2..Len(p) : IsSpace(p[k]) /\ p[k - 1] \in SentenceEnd}
    IN  IF cuts = {} THEN <<p>>
        ELSE LET k == CHOOSE c \in cuts : \A d \in cuts : c <= d
                 run == {j \in k..Len(p) : \A i \in k..j : IsSpace(p[i])}
                 e == CHOOSE j \in run : \A i \in run : j >= i
             IN  <<SubSeq(p, 1, k - 1)>> \o SplitSentences(SubSeq(p, e + 1, Len(p)))

\* Mutant: the merge test without `and not _starts_like_new_sentence(part)`.
MergeDecisionIgnoringStarters(sents, first, part) ==
    IF sents = <<>> THEN "new"
    ELSE IF first THEN "new"
    ELSE IF SentenceEndsWithAbbreviation(Last(sents).text) THEN "merge"
    ELSE "new"

\* Mutant: the merge test without `sentences and not first_sentence_in_paragraph`,
\* so that sentences[-1] is read from a list that may be empty.
MergeDecisionUnguarded(sents, first, part) ==
    IF sents = <<>> THEN "raise"
    ELSE IF SentenceEndsWithAbbreviation(Last(sents).text) /\ ~StartsLikeNewSentence(part)
         THEN "merge"
         ELSE "new"

\* Mutant: the first candidate of a paragraph may be merged too.
MergeDecisionAcrossParagraphs(sents, first, part) ==
    IF sents = <<>> THEN "new"
    ELSE IF SentenceEndsWithAbbreviation(Last(sents).text) /\ ~StartsLikeNewSentence(part)
         THEN "merge"
         ELSE "new"

\* The condition of the `if` at captions.py:87-92, in Python's evaluation order.
\* "raise" stands for the IndexError of sentences[-1] on an empty list.
MergeDecision(sents, first, part) ==
    IF sents = <<>> THEN "new"
    ELSE IF first THEN "new"
    ELSE IF SentenceEndsWithAbbreviation(Last(sents).text) /\ ~StartsLikeNewSentence(part)
         THEN "merge"
         ELSE "new"

\* Mutant: paragraph_break_before=first_sentence_in_paragraph, without seen_paragraph.
AcceptPartFlaggingEveryParagraph(sents, part, first, seen) ==
    LET d == MergeDecision(sents, first, part)
    IN  IF d = "raise" THEN [raised |-> TRUE, sentences |-> sents]
        ELSE IF d = "merge"
        THEN [raised |-> FALSE,
              sentences |-> [sents EXCEPT ![Len(sents)] =
                                SentencePiece(Last(sents).text \o <<" ">> \o part,
                                              Last(sents).paragraph_break_before)]]
        ELSE [raised |-> FALSE,
              sentences |-> Append(sents, SentencePiece(part, first))]

\* The body of `for part in parts` for one non-empty stripped part.
AcceptPart(sents, part, first, seen) ==
    LET d == MergeDecision(sents, first, part)
    IN  IF d = "raise" THEN [raised |-> TRUE, sentences |-> sents]
        ELSE IF d = "merge"
        THEN [raised |-> FALSE,
              sentences |-> [sents EXCEPT ![Len(sents)] =
                                SentencePiece(Last(sents).text \o <<" ">> \o part,
                                              Last(sents).paragraph_break_before)]]
        ELSE [raised |-> FALSE,
              sentences |-> Append(sents, SentencePiece(part, seen /\ first))]

\* `for part in parts` over one paragraph, as a fold
RECURSIVE FoldParts(_, _, _, _)
FoldParts(acc, ps, first, seen) ==
    IF ps = <<>> \/ acc.raised THEN acc
    ELSE LET part == Strip(Head(ps))
         IN  IF part = <<>> THEN FoldParts(acc, Tail(ps), first, seen)
             ELSE FoldParts(AcceptPart(acc.sentences, part, first, seen),
                            Tail(ps), FALSE, seen)

\* `for paragraph in paragraphs`, as a fold
RECURSIVE FoldParagraphs(_, _, _)
FoldParagraphs(acc, paras, seen) ==
    IF paras = <<>> \/ acc.raised THEN acc
    ELSE LET paragraph == Strip(Head(paras))
         IN  IF paragraph = <<>> THEN FoldParagraphs(acc, Tail(paras), seen)
             ELSE FoldParagraphs(FoldParts(acc, SplitSentences(paragraph), TRUE, seen),
                                 Tail(paras), TRUE)

\* split_into_sentences as a function: [raised, sentences]
split_into_sentences(t) ==
    FoldParagraphs([raised |-> FALSE, sentences |-> <<>>], SplitParagraphs(t), FALSE)

(***************************************************************************)
(* Caption Timeline Synthesizer                                            *)
(*                                                                         *)
(* A configuration is [lead_in, lead_out, paragraph_gap, sentence_gap,     *)
(* min_caption_duration]; inside one call all times share one scale.       *)
(***************************************************************************)
\* min_caption_duration = 0.3 s, in milliseconds
MIN_CAPTION_DURATION_MS == 300

\* captions.py:150-154: the timing parameters in the call's time unit
TimingConfig(lead_in_ms, lead_out_ms, paragraph_gap_ms, gap_ms, scale) ==
    [lead_in |-> lead_in_ms * scale,
     lead_out |-> lead_out_ms * scale,
     paragraph_gap |-> paragraph_gap_ms * scale,
     sentence_gap |-> gap_ms * scale,
     min_caption_duration |-> MIN_CAPTION_DURATION_MS * scale]

\* Mutant: the gap is added before the first sentence too.
GapBeforeEverySentence(i, sentence, c) ==
    IF sentence.paragraph_break_before THEN c.paragraph_gap ELSE c.sentence_gap

\* Mutant: the paragraph gap and the sentence gap exchanged.
GapBeforeExchanged(i, sentence, c) ==
    IF i > 0
    THEN IF sentence.paragraph_break_before THEN c.sentence_gap ELSE c.paragraph_gap
    ELSE 0

\* captions.py:163-167: the silence before sentence i (0-based)
GapBefore(i, sentence, c) ==
    IF i > 0
    THEN IF sentence.paragraph_break_before THEN c.paragraph_gap ELSE c.sentence_gap
    ELSE 0

\* Mutant: the caption start is not floored at 0.
CaptionWindowUnfloored(audio_time, audio_end, c) ==
    LET caption_start == audio_time - c.lead_in
        caption_end == audio_end - c.lead_out
    IN  [start |-> caption_start,
         end |-> IF caption_end - caption_start < c.min_caption_duration
                 THEN caption_start + c.min_caption_duration
                 ELSE caption_end]

\* captions.py:180-190: the caption window of a sentence spoken in
\* [audio_time, audio_end], with the minimum duration applied
CaptionWindow(audio_time, audio_end, c) ==
    LET caption_start == Max(0, audio_time - c.lead_in)
        caption_end == audio_end - c.lead_out
    IN  [start |-> caption_start,
         end |-> IF caption_end - caption_start < c.min_caption_duration
                 THEN caption_start + c.min_caption_duration
                 ELSE caption_end]

\* Mutant: no clamp against the previous caption.
PreventOverlapMissing(i, w, last_caption_end, c) == w

\* captions.py:193-197
PreventOverlap(i, w, last_caption_end, c) ==
    IF i > 0 /\ w.start < last_caption_end
    THEN [start |-> last_caption_end,
          end |-> IF w.end - last_caption_end < c.min_caption_duration
                  THEN last_caption_end + c.min_caption_duration
                  ELSE w.end]
    ELSE w

\* Mutant: cue numbering starts at 0.
LoopStartFromZero ==
    [audio_time |-> 0, cue_number |-> 0, last_caption_end |-> 0,
     cues |-> <<>>, walk |-> <<>>]

\* The state of the cue loop before its first iteration (captions.py:156-159).
\* walk records, per sentence, when its speech starts and ends.
LoopStart ==
    [audio_time |-> 0, cue_number |-> 1, last_caption_end |-> 0,
     cues |-> <<>>, walk |-> <<>>]

\* Mutant: the audio cursor continues from the end of the caption.
CueStepFromCaptionEnd(st, i, sentence, sentence_audio_duration, c) ==
    LET audio_time == st.audio_time + GapBefore(i, sentence, c)
        audio_end == audio_time + sentence_audio_duration
        w == PreventOverlap(i, CaptionWindow(audio_time, audio_end, c),
                            st.last_caption_end, c)
    IN  [audio_time |-> w.end,
         cue_number |-> st.cue_number + 1,
         last_caption_end |-> w.end,
         cues |-> Append(st.cues, [index |-> st.cue_number, start |-> w.start,
                                   end |-> w.end, text |-> sentence.text]),
         walk |-> Append(st.walk, [audio_time |-> audio_time, audio_end |-> audio_end])]

\* captions.py:161-208: one iteration of `for i, sentence in enumerate(sentences)`,
\* for a sentence whose speech lasts sentence_audio_duration
CueStep(st, i, sentence, sentence_audio_duration, c) ==
    LET audio_time == st.audio_time + GapBefore(i, sentence, c)
        audio_end == audio_time + sentence_audio_duration
        w == PreventOverlap(i, CaptionWindow(audio_time, audio_end, c),
                            st.last_caption_end, c)
    IN  [audio_time |-> audio_end,
         cue_number |-> st.cue_number + 1,
         last_caption_end |-> w.end,
         cues |-> Append(st.cues, [index |-> st.cue_number, start |-> w.start,
                                   end |-> w.end, text |-> sentence.text]),
         walk |-> Append(st.walk, [audio_time |-> audio_time, audio_end |-> audio_end])]

\* the cue loop over sentences i+1.. (i sentences done), speech lengths in audio
RECURSIVE CueLoop(_, _, _, _, _)
CueLoop(st, i, sents, audio, c) ==
    IF i >= Len(sents) THEN st
    ELSE CueLoop(CueStep(st, i, sents[i + 1], audio[i + 1], c), i + 1, sents, audio, c)

\* Mutant: total_chars counts one separator after every sentence.
RECURSIVE SumLenWithSeparators(_)
SumLenWithSeparators(sents) ==
    IF sents = <<>> THEN 0
    ELSE Len(Head(sents).text) + 1 + SumLenWithSeparators(Tail(sents))

RECURSIVE SumLen(_)
SumLen(sents) ==
    IF sents = <<>> THEN 0 ELSE Len(Head(sents).text) + SumLen(Tail(sents))

\* captions.py:201 with 28-33: the milliseconds that format_timestamp can
\* write for the time t / (1000 * scale) s.  f"{secs:06.3f}" rounds to the
\* nearest millisecond; for a time half-way between two milliseconds the
\* binary float decides, and either neighbour can be written.
WrittenMs(t, scale) ==
    {m \in (t \div scale)..((t \div scale) + 1) :
        /\ 2 * scale * m - 2 * t <= scale
        /\ 2 * t - 2 * scale * m <= scale}

\* Formatting is monotone in the floats: a time not before pt is not written
\* before pw, pt's millisecond, and a time before pt not after it.  Two equal
\* times need not be equal floats: a start that is the end of the cue before
\* (captions.py:193 leaves it when the floats are in order) can be written
\* one millisecond after it.  w is a way to write t after pt was written as pw.
InOrder(t, w, pt, pw) == (t >= pt => w >= pw) /\ (t < pt => w <= pw)

\* The cue lines that can be written for the cues of the loop, in
\* milliseconds (captions.py:199-203); pt is the time formatted last and pw
\* what was written for it.
RECURSIVE Writings(_, _, _, _)
Writings(cues, scale, pt, pw) ==
    IF cues = <<>> THEN {<<>>}
    ELSE LET c == Head(cues)
         IN  UNION {UNION {{<<[index |-> c.index, start |-> s, end |-> e,
                               text |-> c.text]>> \o rest :
                                rest \in Writings(Tail(cues), scale, c.end, e)} :
                           e \in {x \in WrittenMs(c.end, scale) :
                                      InOrder(c.end, x, c.start, s)}} :
                    s \in {x \in WrittenMs(c.start, scale) : InOrder(c.start, x, pt, pw)}}

\* What a synthesizer has at its return: cues, walk and audio_time are the
\* loop's variables, a time t standing for t / (1000 * scale) seconds;
\* writings holds the cue lines of the returned track, in milliseconds, in
\* every way the format can write them.
Track(st, scale) ==
    [status |-> "ok", scale |-> scale, cues |-> st.cues, walk |-> st.walk,
     audio_time |-> st.audio_time, writings |-> Writings(st.cues, scale, 0, 0)]

\* The results of a call: the track with its cue lines written one way.
Returned(r) ==
    IF r.status = "ok"
    THEN {[status |-> "ok", scale |-> r.scale, cues |-> r.cues, walk |-> r.walk,
           audio_time |-> r.audio_time, written |-> w] : w \in r.writings}
    ELSE {r}

\* create_simple_vtt, times in milliseconds.  The slice of sentence k is
\* duration * len(k) / total_chars, so the call's scale is total_chars.
create_simple_vtt(t, duration_ms, lead_in_ms, lead_out_ms, paragraph_gap_ms, gap_ms) ==
    LET r == split_into_sentences(t)
        total_chars == SumLen(r.sentences)
        c == TimingConfig(lead_in_ms, lead_out_ms, paragraph_gap_ms, gap_ms, total_chars)
        audio == [k \in 1..Len(r.sentences) |-> duration_ms * Len(r.sentences[k].text)]
    IN  IF r.raised THEN [status |-> "raised"]
        ELSE IF r.sentences = <<>> THEN Track(LoopStart, 1)
        ELSE IF total_chars = 0 THEN Track(LoopStart, 1)
        ELSE Track(CueLoop(LoopStart, 0, r.sentences, audio, c), total_chars)

\* create_vtt_from_real_durations: imported by routes/narration.py:20 and called
\* at routes/narration.py:325-332; its body is not in captions.py.  Modelled
\* from the specification: the cue loop of create_simple_vtt with the measured
\* clip durations as the speech lengths, InvalidInput for no sentences.  A
\* duration d stands for d / (1000 * scale) seconds.
create_vtt_from_real_durations(sents, durations, scale, lead_in_ms, lead_out_ms, paragraph_gap_ms, gap_ms) ==
    IF sents = <<>> THEN [status |-> "InvalidInput"]
    ELSE Track(CueLoop(LoopStart, 0, sents, durations,
                       TimingConfig(lead_in_ms, lead_out_ms, paragraph_gap_ms, gap_ms, scale)),
               scale)

\* Mutant: every silence is the sentence gap.
AssembledLengthWithoutParagraphSilence(sents, clips_ms, silence_gap_ms, paragraph_silence_ms) ==
    LET n == Len(sents)
        RECURSIVE Sum(_)
        Sum(k) == IF k = 0 THEN 0
                  ELSE Sum(k - 1) + (IF k > 1 THEN silence_gap_ms ELSE 0) + clips_ms[k]
    IN  Sum(n)

\* routes/narration.py:293-313: the length of `combined`, the clips in order
\* with a silence before every clip but the first
AssembledLength(sents, clips_ms, silence_gap_ms, paragraph_silence_ms) ==
    LET n == Len(sents)
        RECURSIVE Sum(_)
        Sum(k) == IF k = 0 THEN 0
                  ELSE Sum(k - 1)
                       + (IF k > 1
                          THEN IF sents[k].paragraph_break_before
                               THEN paragraph_silence_ms ELSE silence_gap_ms
                          ELSE 0)
                       + clips_ms[k]
    IN  Sum(n)

(***************************************************************************)
(* Alignment-Based Cue Grouper                                             *)
(***************************************************************************)
WORDS_PER_CAPTION == 8

\* Mutant: only the space ends a word.
WordBoundarySpaceOnly == {" "}

\* captions.py:245
WordBoundary == {" ", ".", ",", "!", "?", ";", ":"}

\* No alignment: alignment_data is None or empty, or has no "alignment" key.
NoAlignment == [present |-> FALSE]

\* alignment_data["alignment"]; a missing key reads as the empty list
Alignment(chars, starts, ends) ==
    [present |-> TRUE, characters |-> chars,
     character_start_times_seconds |-> starts,
     character_end_times_seconds |-> ends]

WordLoopStart ==
    [raised |-> FALSE, words |-> <<>>, current_word |-> <<>>,
     has_start |-> FALSE, word_start |-> 0, word_end |-> 0]

\* captions.py:237-253: one iteration of `for i, char in enumerate(characters)`
\* (i is 0-based); reading a time list past its end raises IndexError
WordStep(st, i, characters, char_start_times, char_end_times) ==
    IF ~st.has_start /\ i >= Len(char_start_times) THEN [st EXCEPT !.raised = TRUE]
    ELSE IF i >= Len(char_end_times) THEN [st EXCEPT !.raised = TRUE]
    ELSE LET char == characters[i + 1]
             word_start == IF st.has_start THEN st.word_start ELSE char_start_times[i + 1]
             current_word == Append(st.current_word, char)
             word_end == char_end_times[i + 1]
         IN  IF char \in WordBoundary \/ i = Len(characters) - 1
             THEN [raised |-> FALSE,
                   words |-> IF Strip(current_word) # <<>>
                             THEN Append(st.words, [text |-> Strip(current_word),
                                                    start |-> word_start, end |-> word_end])
                             ELSE st.words,
                   current_word |-> <<>>, has_start |-> FALSE,
                   word_start |-> 0, word_end |-> word_end]
             ELSE [raised |-> FALSE, words |-> st.words, current_word |-> current_word,
                   has_start |-> TRUE, word_start |-> word_start, word_end |-> word_end]

RECURSIVE WordLoop(_, _, _, _, _)
WordLoop(st, i, characters, char_start_times, char_end_times) ==
    IF i >= Len(characters) \/ st.raised THEN st
    ELSE WordLoop(WordStep(st, i, characters, char_start_times, char_end_times),
                  i + 1, characters, char_start_times, char_end_times)

\* " ".join(w["text"] for w in caption_words)
RECURSIVE JoinWords(_)
JoinWords(ws) ==
    IF ws = <<>> THEN <<>>
    ELSE IF Len(ws) = 1 THEN ws[1].text
    ELSE ws[1].text \o <<" ">> \o JoinWords(Tail(ws))

\* Mutant: all the words in one cue.
GroupWordsInOneCue(words, from, cue_number) ==
    IF words = <<>> THEN <<>>
    ELSE <<[index |-> cue_number, start |-> words[1].start,
            end |-> Last(words).end, text |-> JoinWords(words)]>>

\* captions.py:259-272: the cues of words[from..], numbered from cue_number
RECURSIVE GroupWords(_, _, _)
GroupWords(words, from, cue_number) ==
    IF from > Len(words) THEN <<>>
    ELSE LET to == IF from + WORDS_PER_CAPTION - 1 < Len(words)
                   THEN from + WORDS_PER_CAPTION - 1 ELSE Len(words)
             caption_words == SubSeq(words, from, to)
         IN  <<[index |-> cue_number, start |-> caption_words[1].start,
                end |-> Last(caption_words).end, text |-> JoinWords(caption_words)]>>
             \o GroupWords(words, from + WORDS_PER_CAPTION, cue_number + 1)

\* What create_vtt_from_alignment returns: the cues after the WEBVTT header
\* and the words they were grouped from, or "raised" for an exception.
\* Times are in milliseconds.
create_vtt_from_alignment(alignment_data) ==
    IF ~alignment_data.present
    THEN [status |-> "ok", scale |-> 1, words |-> <<>>, cues |-> <<>>]
    ELSE LET characters == alignment_data.characters
             char_start_times == alignment_data.character_start_times_seconds
             char_end_times == alignment_data.character_end_times_seconds
         IN  IF characters = <<>> \/ char_start_times = <<>> \/ char_end_times = <<>>
             THEN [status |-> "ok", scale |-> 1, words |-> <<>>, cues |-> <<>>]
             ELSE LET st == WordLoop(WordLoopStart, 0, characters,
                                     char_start_times, char_end_times)
                  IN  IF st.raised
                      THEN [status |-> "raised", scale |-> 1, words |-> <<>>,
                            cues |-> <<>>]
                      ELSE [status |-> "ok", scale |-> 1, words |-> st.words,
                            cues |-> GroupWords(st.words, 1, 1)]

(***************************************************************************)
(* Inputs of the segmenter                                                 *)
(***************************************************************************)
SegAlphabet == {"m", "s", "a", ".", " ", "\n"}

TextDrSmith ==
    <<"D","r","."," ","S","m","i","t","h"," ","a","r","r","i","v","e","d","."," ","H","e"," ","l","e","f","t",".">>
TextTwoParas ==
    <<"P","a","r","a"," ","o","n","e",".","\n","\n","P","a","r","a"," ","t","w","o",".">>
TextQuotedStarter ==
    <<"S","e","e"," ","M","s","."," ","'","H","e"," ","l","e","f","t",".">>
TextAbbrevAtParaEnd ==
    <<"A","s","k"," ","M","r",".","\n","\n","s","m","i","t","h",".">>
TextUpperAbbrev ==
    <<"M","S","."," ","m","!"," ","a">>
TextBlankParas ==
    <<" ","\n","\n","\n","\n","A","."," ","b","\n","\n"," ","\n","\n","C","?">>
TextAbbrevChain ==
    <<"e",".","g","."," ","i",".","e","."," ","e","t","c","."," ","s","o"," ","o","n",".">>

TextMergeThenPara ==
    <<"D","r","."," ","N","o",".","\n","\n","O","k",".">>

TextPaddedMerges ==
    <<" ","v","s","."," "," ","x"," ","e","t","c",".","\t","y"," ","\n","\n"," ","z"," ">>

\* whitespace other than space, tab and the line ends
TextFormFeed == <<"a", ".", "\f", "b">>

TextOnlyFormFeed == <<"\f">>

TextOtherSpaces ==
    <<"", "D", "R", ".", " ", "", "x", ".", "", "\n", "\n", "", "y", "">>

\* cased letters outside A-Z
TextLatinCapitals == <<"É", "t", "c", ".", " ", "Ø", ".">>

TextGreekCapitals == <<"Σ", "o", ".", " ", "Α", "n", ".", " ", "I", ".">>

\* the space mark U+1680 after a full stop and around a paragraph
TextOghamSpace == <<"a", ".", " ", "b", "\n", "\n", " ", "c", ".", " ">>

ExampleTexts ==
    {TextDrSmith, TextTwoParas, TextQuotedStarter, TextAbbrevAtParaEnd,
     TextUpperAbbrev, TextBlankParas, TextAbbrevChain, TextMergeThenPara,
     TextPaddedMerges, TextFormFeed, TextOnlyFormFeed, TextOtherSpaces,
     TextLatinCapitals, TextGreekCapitals, TextOghamSpace}

SegTexts ==
    ExampleTexts \cup UNION {[1..n -> SegAlphabet] : n \in 0..MaxTextLen}

(***************************************************************************)
(* split_into_sentences, one loop step per action                          *)
(***************************************************************************)
IdleVtt == [kind |-> "none", status |-> "idle"]

InitSeg ==
    /\ text \in SegTexts
    /\ paragraphs = <<>>
    /\ para_i = 1
    /\ parts = <<>>
    /\ part_i = 1
    /\ sentences = <<>>
    /\ seen_paragraph = FALSE
    /\ first_sentence_in_paragraph = FALSE
    /\ pc = "call"
    /\ req = IdleVtt
    /\ out = IdleVtt
    /\ NoJobs

\* captions.py:68-70
SegEnter ==
    /\ pc = "call"
    /\ paragraphs' = SplitParagraphs(text)
    /\ para_i' = 1
    /\ sentences' = <<>>
    /\ seen_paragraph' = FALSE
    /\ pc' = "paragraph"
    /\ UNCHANGED <<text, parts, part_i, first_sentence_in_paragraph, vttVars, jobVars>>

\* captions.py:72-80: the head of one iteration of `for paragraph in paragraphs`
SegParagraph ==
    /\ pc = "paragraph"
    /\ para_i <= Len(paragraphs)
    /\ LET paragraph == Strip(paragraphs[para_i])
       IN  IF paragraph = <<>>
           THEN /\ para_i' = para_i + 1
                /\ UNCHANGED <<parts, part_i, first_sentence_in_paragraph, pc>>
           ELSE /\ parts' = SplitSentences(paragraph)
                /\ part_i' = 1
                /\ first_sentence_in_paragraph' = TRUE
                /\ pc' = "part"
                /\ UNCHANGED para_i
    /\ UNCHANGED <<text, paragraphs, sentences, seen_paragraph, vttVars, jobVars>>

\* captions.py:81-108: one iteration of `for part in parts`
SegPart ==
    /\ pc = "part"
    /\ part_i <= Len(parts)
    /\ LET part == Strip(parts[part_i])
       IN  IF part = <<>>
           THEN UNCHANGED <<sentences, first_sentence_in_paragraph, pc>>
           ELSE LET r == AcceptPart(sentences, part, first_sentence_in_paragraph,
                                    seen_paragraph)
                IN  /\ sentences' = r.sentences
                    /\ first_sentence_in_paragraph' = FALSE
                    /\ pc' = IF r.raised THEN "raised" ELSE "part"
    /\ part_i' = part_i + 1
    /\ UNCHANGED <<text, paragraphs, para_i, parts, seen_paragraph, vttVars, jobVars>>

\* captions.py:110: the paragraph's parts are exhausted
SegEndParagraph ==
    /\ pc = "part"
    /\ part_i > Len(parts)
    /\ seen_paragraph' = TRUE
    /\ para_i' = para_i + 1
    /\ pc' = "paragraph"
    /\ UNCHANGED <<text, paragraphs, parts, part_i, sentences,
                   first_sentence_in_paragraph, vttVars, jobVars>>

\* captions.py:112
SegReturn ==
    /\ pc = "paragraph"
    /\ para_i > Len(paragraphs)
    /\ pc' = "done"
    /\ UNCHANGED <<text, paragraphs, para_i, parts, part_i, sentences,
                   seen_paragraph, first_sentence_in_paragraph, vttVars, jobVars>>

NextSeg == SegEnter \/ SegParagraph \/ SegPart \/ SegEndParagraph \/ SegReturn

SpecSeg == InitSeg /\ [][NextSeg]_vars

\* The stepwise run and the fold compute the same list.
SegStepsAgreeWithFold ==
    pc = "done" => sentences = split_into_sentences(text).sentences

(***************************************************************************)
(* Inputs of the synthesizers                                              *)
(***************************************************************************)
\* A text of n sentences "x.", "xx.", ... separated by a space or a blank line
SentenceShapes(n, maxLen) == [1..n -> [len : 1..maxLen, brk : BOOLEAN]]

RECURSIVE MakeText(_)
MakeText(shape) ==
    IF shape = <<>> THEN <<>>
    ELSE LET n == Len(shape)
             word == [k \in 1..shape[n].len |-> "x"] \o <<".">>
         IN  IF n = 1 THEN word
             ELSE MakeText(SubSeq(shape, 1, n - 1))
                  \o (IF shape[n].brk THEN <<"\n", "\n">> ELSE <<" ">>) \o word

TextBlank == <<" ", "\n", "\n", " ">>

SimpleTexts ==
    {MakeText(sh) : sh \in UNION {SentenceShapes(n, MaxWordLen) : n \in 0..MaxSentences}}
        \cup {TextBlank, TextDrSmith, TextMergeThenPara}

ClipTexts ==
    {MakeText(sh) : sh \in UNION {SentenceShapes(n, 1) : n \in 0..MaxClips}}

TotalDurationsMs == {0, 100, 1000, 3000}

ClipDurationsMs == {0, 200, 1000}

Configs ==
    [lead_in : {0, 50, 500}, lead_out : {0, 120}, paragraph_gap : {0, 600}, gap : {0, 150}]

\* calls whose cue times fall half-way between two milliseconds
HalfwayRequests ==
    {[kind |-> "simple",
      text |-> MakeText(<<[len |-> 5, brk |-> FALSE], [len |-> 2, brk |-> TRUE],
                          [len |-> 2, brk |-> TRUE]>>),
      duration_ms |-> 233,
      cfg |-> [lead_in |-> 0, lead_out |-> 120, paragraph_gap |-> 600, gap |-> 1]],
     [kind |-> "simple",
      text |-> MakeText(<<[len |-> 4, brk |-> FALSE], [len |-> 2, brk |-> FALSE]>>),
      duration_ms |-> 692,
      cfg |-> [lead_in |-> 1, lead_out |-> 120, paragraph_gap |-> 600, gap |-> 150]]}

\* calls whose lead-in is the gap plus the lead-out, so that a cue starts at
\* the end of the cue before it, with that time half-way between two
\* milliseconds
AbuttingRequests ==
    {[kind |-> "simple",
      text |-> MakeText(<<[len |-> 1, brk |-> FALSE], [len |-> 1, brk |-> FALSE]>>),
      duration_ms |-> 9011,
      cfg |-> [lead_in |-> 270, lead_out |-> 120, paragraph_gap |-> 600, gap |-> 150]],
     [kind |-> "simple",
      text |-> MakeText(<<[len |-> 1, brk |-> FALSE], [len |-> 1, brk |-> FALSE]>>),
      duration_ms |-> 1907,
      cfg |-> [lead_in |-> 283, lead_out |-> 53, paragraph_gap |-> 217, gap |-> 230]],
     [kind |-> "simple",
      text |-> MakeText(<<[len |-> 5, brk |-> FALSE], [len |-> 1, brk |-> FALSE]>>),
      duration_ms |-> 582,
      cfg |-> [lead_in |-> 235, lead_out |-> 85, paragraph_gap |-> 600, gap |-> 150]]}

SimpleRequests ==
    {[kind |-> "simple", text |-> t, duration_ms |-> d, cfg |-> c] :
        t \in SimpleTexts, d \in TotalDurationsMs, c \in Configs}
        \cup HalfwayRequests \cup AbuttingRequests

\* the sentences as process_generation_job obtains them (routes/narration.py:241)
ClipSentences == {split_into_sentences(t).sentences : t \in ClipTexts}

RealRequest(sents, du, c) ==
    [kind |-> "real", sentences |-> sents, durations |-> du, cfg |-> c]

(***************************************************************************)
(* The synthesizers, one call per behaviour                                *)
(***************************************************************************)
InitVtt ==
    /\ text = <<>>
    /\ paragraphs = <<>>
    /\ para_i = 1
    /\ parts = <<>>
    /\ part_i = 1
    /\ sentences = <<>>
    /\ seen_paragraph = FALSE
    /\ first_sentence_in_paragraph = FALSE
    /\ pc = "idle"
    /\ \/ req \in SimpleRequests
       \/ \E sents \in ClipSentences :
            \E du \in [1..Len(sents) -> ClipDurationsMs], c \in Configs :
                req = RealRequest(sents, du, c)
    /\ out = IdleVtt
    /\ NoJobs

\* captions.py:115-210
CallSimpleVtt ==
    /\ req.kind = "simple"
    /\ out = IdleVtt
    /\ out' \in Returned(create_simple_vtt(req.text, req.duration_ms, req.cfg.lead_in,
                                         req.cfg.lead_out, req.cfg.paragraph_gap,
                                         req.cfg.gap))
    /\ UNCHANGED <<segVars, req, jobVars>>

\* routes/narration.py:325-332
CallRealDurations ==
    /\ req.kind = "real"
    /\ out = IdleVtt
    /\ out' \in Returned(create_vtt_from_real_durations(
                            req.sentences, req.durations, 1, req.cfg.lead_in,
                            req.cfg.lead_out, req.cfg.paragraph_gap, req.cfg.gap))
    /\ UNCHANGED <<segVars, req, jobVars>>

NextVtt == CallSimpleVtt \/ CallRealDurations

SpecVtt == InitVtt /\ [][NextVtt]_vars

(***************************************************************************)
(* Properties of the synthesizers                                          *)
(***************************************************************************)
RequestSentences ==
    IF req.kind = "simple" THEN split_into_sentences(req.text).sentences
    ELSE req.sentences

\* the silences the cue loop is to insert, in milliseconds
InsertedGapsMs ==
    LET sents == RequestSentences
        RECURSIVE Sum(_)
        Sum(k) == IF k <= 1 THEN 0
                  ELSE Sum(k - 1) + (IF sents[k].paragraph_break_before
                                     THEN req.cfg.paragraph_gap ELSE req.cfg.gap)
    IN  Sum(Len(sents))

\* cue k began before its lead-in window, at the end of cue k-1
Clamped(k) ==
    /\ k >= 2
    /\ out.cues[k].start = out.cues[k - 1].end
    /\ Max(0, out.walk[k].audio_time - req.cfg.lead_in * out.scale) < out.cues[k - 1].end

MinDuration == MIN_CAPTION_DURATION_MS * out.scale

\* the written time w (ms) is the computed time t rounded to the millisecond
NearestMs(w, t) ==
    /\ 2 * out.scale * w - 2 * t <= out.scale
    /\ 2 * t - 2 * out.scale * w <= out.scale

\* the returned track has one cue line per cue of the loop, its times the
\* loop's caption_start and caption_end rounded to the millisecond
WrittenFromCues ==
    /\ Len(out.written) = Len(out.cues)
    /\ \A k \in 1..Len(out.cues) :
        /\ NearestMs(out.written[k].start, out.cues[k].start)
        /\ NearestMs(out.written[k].end, out.cues[k].end)

\* C1: consecutive cues of either synthesizer do not overlap:
\* cue[i].end <= cue[i+1].start, for the times the loop computes and for the
\* times written to the track.
C1_NoOverlap ==
    out.status = "ok" =>
        /\ \A k \in 1..(Len(out.cues) - 1) : out.cues[k].end <= out.cues[k + 1].start
        /\ WrittenFromCues
        /\ \A k \in 1..(Len(out.written) - 1) :
            out.written[k].end <= out.written[k + 1].start

C1_Witness ==
    /\ out.status = "ok"
    /\ Len(out.cues) >= 3
    /\ req.kind = "simple"
    /\ req.duration_ms > 0
    /\ Clamped(2)
    /\ ~Clamped(3)

\* C2: every cue of the returned track lasts at least the minimum cue
\* duration of 0.3 s, clamped cues and cues of zero-length speech included.
C2_MinimumDuration ==
    out.status = "ok" =>
        \A k \in 1..Len(out.written) :
            out.written[k].end - out.written[k].start >= MIN_CAPTION_DURATION_MS

\* the loop's own caption_start and caption_end are at least 0.3 s apart
C2_ComputedMinimumDuration ==
    out.status = "ok" =>
        \A k \in 1..Len(out.cues) : out.cues[k].end - out.cues[k].start >= MinDuration

\* C3 as claimed: in estimated-duration mode the last cue's end and the final
\* audio cursor never exceed the total duration.
C3_WithinTotalDuration ==
    (req.kind = "simple" /\ out.status = "ok" /\ out.cues # <<>>) =>
        /\ Last(out.cues).end <= req.duration_ms * out.scale
        /\ out.audio_time <= req.duration_ms * out.scale

\* C3 as amended: in estimated-duration mode the final audio cursor is the
\* total duration plus the inserted gaps, and the last cue ends no later than
\* that cursor unless it was extended to the minimum cue duration.
C3_WithinTotalDurationPlusGaps ==
    (req.kind = "simple" /\ out.status = "ok" /\ out.cues # <<>>) =>
        /\ out.audio_time = (req.duration_ms + InsertedGapsMs) * out.scale
        /\ \/ Last(out.cues).end <= out.audio_time
           \/ Last(out.cues).end = Last(out.cues).start + MinDuration
        /\ NearestMs(Last(out.written).end, Last(out.cues).end)

C3_Witness ==
    /\ req.kind = "simple"
    /\ out.status = "ok"
    /\ Len(out.cues) >= 2
    /\ InsertedGapsMs > 0
    /\ Last(out.cues).end > req.duration_ms * out.scale
    /\ Last(out.cues).end <= out.audio_time
    /\ Last(out.cues).end - Last(out.cues).start > MinDuration

\* C4 as claimed: in real-duration mode with the gaps 150 ms and 600 ms of the
\* assembled track, the last cue ends no later than the assembled track.
C4_WithinAssembledTrack ==
    (req.kind = "real" /\ out.status = "ok" /\ req.cfg.gap = 150
        /\ req.cfg.paragraph_gap = 600) =>
        Last(out.cues).end <= AssembledLength(req.sentences, req.durations, 150, 600)

\* C4 as amended: in real-duration mode with the gaps of the assembled track,
\* the last cue ends lead-out before the end of the assembled track, hence
\* within it, unless it was extended to the minimum cue duration.
C4_WithinAssembledTrackUnlessExtended ==
    (req.kind = "real" /\ out.status = "ok") =>
        LET track == AssembledLength(req.sentences, req.durations,
                                     req.cfg.gap, req.cfg.paragraph_gap)
            last == Last(out.cues)
        IN  /\ out.audio_time = track
            /\ \/ last.end = track - req.cfg.lead_out /\ last.end <= track
               \/ last.end = last.start + MinDuration
            /\ Last(out.written).end = last.end

C4_Witness ==
    /\ req.kind = "real"
    /\ out.status = "ok"
    /\ req.cfg.gap = 150
    /\ req.cfg.paragraph_gap = 600
    /\ Len(out.cues) >= 3
    /\ \E k \in 2..Len(req.sentences) : req.sentences[k].paragraph_break_before
    /\ \E k \in 2..Len(req.sentences) : ~req.sentences[k].paragraph_break_before
    /\ Last(out.cues).end - Last(out.cues).start > MinDuration
    /\ Last(out.cues).end <= AssembledLength(req.sentences, req.durations, 150, 600)

\* C5: both synthesizers report InvalidInput for an empty sentence sequence
\* and return no track, header-only or empty.
C5_EmptyIsInvalidInput ==
    (out.status # "idle" /\ RequestSentences = <<>>) => out.status = "InvalidInput"

(***************************************************************************)
(* The alignment grouper, one call per behaviour                           *)
(***************************************************************************)
AlignAlphabet == {"h", " ", ".", ",", "\n"}

\* nine words, so that the cues span more than one window
AlignNineWords ==
    <<"a",".","b",".","c",".","d",".","e",".","f",".","g",".","h",".","i",".">>

\* character k is spoken in [100 (k-1), 100 (k-1) + 80] milliseconds
AlignHiThere == <<"H","i"," ","t","h","e","r","e",".">>

AlignExamples == {AlignNineWords, AlignHiThere}

StartTimes(n) == [k \in 1..n |-> 100 * (k - 1)]

EndTimes(n) == [k \in 1..n |-> 100 * (k - 1) + 80]

AlignRequests ==
    {[kind |-> "alignment", alignment_data |-> NoAlignment]}
    \cup {[kind |-> "alignment",
           alignment_data |-> Alignment(chars, StartTimes(ns), EndTimes(ne))] :
            chars \in UNION {[1..n -> AlignAlphabet] : n \in 0..MaxAlignLen},
            ns \in 0..(MaxAlignLen + 1), ne \in 0..(MaxAlignLen + 1)}
    \cup UNION {{[kind |-> "alignment",
                   alignment_data |-> Alignment(chars, StartTimes(ns), EndTimes(ne))] :
                    ns \in (Len(chars) - 1)..(Len(chars) + 1),
                    ne \in (Len(chars) - 1)..(Len(chars) + 1)} :
                 chars \in AlignExamples}

InitAlign ==
    /\ text = <<>>
    /\ paragraphs = <<>>
    /\ para_i = 1
    /\ parts = <<>>
    /\ part_i = 1
    /\ sentences = <<>>
    /\ seen_paragraph = FALSE
    /\ first_sentence_in_paragraph = FALSE
    /\ pc = "idle"
    /\ req \in AlignRequests
    /\ out = IdleVtt
    /\ NoJobs

\* captions.py:213-274
CallAlignment ==
    /\ req.kind = "alignment"
    /\ out = IdleVtt
    /\ out' = create_vtt_from_alignment(req.alignment_data)
    /\ UNCHANGED <<segVars, req, jobVars>>

NextAlign == CallAlignment

SpecAlign == InitAlign /\ [][NextAlign]_vars

(***************************************************************************)
(* Timestamp formatting                                                    *)
(*                                                                         *)
(* A time is given in thirds of a millisecond, so that the inputs include  *)
(* times on both sides of a millisecond and none half-way between two.     *)
(***************************************************************************)
DigitChars == <<"0", "1", "2", "3", "4", "5", "6", "7", "8", "9">>

\* str(n) for n >= 0
RECURSIVE Decimal(_)
Decimal(n) ==
    IF n < 10 THEN <<DigitChars[n + 1]>>
    ELSE Decimal(n \div 10) \o <<DigitChars[(n % 10) + 1]>>

\* the zero padding of a format width: never truncates
RECURSIVE ZeroPad(_, _)
ZeroPad(s, width) == IF Len(s) >= width THEN s ELSE ZeroPad(<<"0">> \o s, width)

\* captions.py:28-33.  3600 s = 10800000 thirds, 60 s = 180000 thirds.
\* f"{secs:06.3f}" rounds the remainder to the nearest millisecond and pads
\* it to six characters.
format_timestamp(thirds) ==
    LET hours == thirds \div 10800000
        minutes == (thirds % 10800000) \div 180000
        secs == thirds % 180000
        millis == (secs + 1) \div 3
    IN  ZeroPad(Decimal(hours), 2) \o <<":">> \o ZeroPad(Decimal(minutes), 2) \o <<":">>
        \o ZeroPad(Decimal(millis \div 1000) \o <<".">> \o ZeroPad(Decimal(millis % 1000), 3), 6)

\* times, in thirds of a millisecond, around which the inputs are taken:
\* 0, 1 s, 1 min, 1 h, 3661.005 s, 100 h
FmtBases == {0, 3000, 180000, 10800000, 10983015, 1080000000}

FmtWindow == 12

FmtTimes ==
    {t \in UNION {(b - FmtWindow)..(b + FmtWindow) : b \in FmtBases} : t >= 0}

FmtRequests == {[kind |-> "format", thirds |-> t] : t \in FmtTimes}

InitFmt ==
    /\ text = <<>>
    /\ paragraphs = <<>>
    /\ para_i = 1
    /\ parts = <<>>
    /\ part_i = 1
    /\ sentences = <<>>
    /\ seen_paragraph = FALSE
    /\ first_sentence_in_paragraph = FALSE
    /\ pc = "idle"
    /\ req \in FmtRequests
    /\ out = IdleVtt
    /\ NoJobs

\* captions.py:28-33
CallFormat ==
    /\ req.kind = "format"
    /\ out = IdleVtt
    /\ out' = [status |-> "ok", scale |-> 1, stamp |-> format_timestamp(req.thirds)]
    /\ UNCHANGED <<segVars, req, jobVars>>

NextFmt == CallFormat

SpecFmt == InitFmt /\ [][NextFmt]_vars

(***************************************************************************)
(* Narration jobs (routes/narration.py)                                    *)
(*                                                                         *)
(* The database holds the generation_jobs rows and the author's row.  A    *)
(* process request walks through process_generation_job statement by       *)
(* statement.  The call of generate_audio_bytes in the sentence loop names *)
(* a keyword the function does not have, so the loop ends in its first     *)
(* iteration and the request in the except block: no request reaches the   *)
(* assembly, the caption call, the upload or the charge.                   *)
(***************************************************************************)
MaxJobs == 2

MaxRequests == 2

\* the requests that several servers, working side by side, take on in a run
MaxAdmitted == 3

NoUrl == "none"

TextThreeClips == <<"a", ".", " ", "b", ".", "\n", "\n", "c", ".">>

TextOneClip == <<"d", ".">>

\* one sentence of ten characters, more than the credits of a small plan
TextOverLimit == <<"e", "e", "e", "e", "e", "e", "e", "e", "e", ".">>

JobTexts == {TextThreeClips, TextOneClip, TextOverLimit, TextBlank}

\* the texts of the create requests
RequestTexts == {TextOneClip, TextOverLimit, TextBlank}

TextUploaded ==
    <<"[","U","p","l","o","a","d","e","d"," ","A","u","d","i","o","]">>

\* credits_limit of an author row on a small plan
AuthorLimits == {9}

\* routes/authors.py:69 and models.py:26: the limit a new author starts with
DefaultCreditsLimit == 50000

\* no author_profiles row for the author
NoAuthor == [present |-> FALSE, credits_used |-> 0, credits_limit |-> 0]

\* routes/narration.py:172-185 with the column defaults of models.py:97-140
NewJob(input_text, is_published) ==
    [input_text |-> input_text, is_published |-> is_published,
     caption_lead_in |-> 50, caption_lead_out |-> 120, caption_gap |-> 150,
     status |-> "queued", audio_url |-> NoUrl, vtt_url |-> NoUrl,
     error_message |-> FALSE]

\* a queued row as create_generation_job wrote it earlier
StoredJobs == {NewJob(TextThreeClips, FALSE)}

\* a request slot with no request in it; job_row is the row as the request's
\* session last loaded it (for a create request, the row to insert),
\* credits_used the author's as the session loaded it; expired: a commit has
\* expired the author object since, and the next read loads it again
IdleProc ==
    [pc |-> "idle", job |-> 0, seen_status |-> "none", credits_used |-> 0,
     job_row |-> NewJob(<<>>, FALSE), expired |-> FALSE, sentences |-> <<>>]

InitJobs ==
    /\ text = <<>>
    /\ paragraphs = <<>>
    /\ para_i = 1
    /\ parts = <<>>
    /\ part_i = 1
    /\ sentences = <<>>
    /\ seen_paragraph = FALSE
    /\ first_sentence_in_paragraph = FALSE
    /\ pc = "idle"
    /\ req = IdleVtt
    /\ out = IdleVtt
    /\ \/ /\ jobs = <<>>
          /\ author = NoAuthor
       \/ /\ jobs \in {<<>>} \cup {<<r>> : r \in StoredJobs}
          /\ \E limit \in AuthorLimits :
                author = [present |-> TRUE, credits_used |-> 0, credits_limit |-> limit]
    /\ issued = Len(jobs)
    /\ admitted = 0
    /\ procs = [p \in 1..MaxRequests |-> IdleProc]

\* no request is being served
Quiet == \A p \in DOMAIN procs : procs[p].pc = "idle"

\* A server with one event loop serves one request at a time: the handlers
\* are coroutines that never await.  Several server processes on one
\* database serve requests side by side, MaxAdmitted of them in a run.
Admit(serial) ==
    IF serial
    THEN Quiet /\ admitted' = admitted
    ELSE admitted < MaxAdmitted /\ admitted' = admitted + 1

\* The generation_jobs table is a function from the ids of its rows to the
\* rows.  uuid.uuid4() (routes/narration.py:173 and 545) gives an id that no
\* row has or had: the ids are numbered in the order they are given out.
NextId == issued + 1

\* at most MaxJobs ids are given out: those out already and one for each
\* create request that has yet to reach its insert
IdsLeft ==
    MaxJobs - issued - Cardinality({p \in DOMAIN procs : procs[p].pc = "create"})

\* session.add(job); commit
WithRow(table, id, row) ==
    [i \in DOMAIN table \cup {id} |-> IF i = id THEN row ELSE table[i]]

\* session.delete(job); commit
WithoutRow(table, id) == [i \in DOMAIN table \ {id} |-> table[i]]

\* the first request slot that is free; the slots are alike
FirstIdle(p) ==
    /\ procs[p].pc = "idle"
    /\ \A q \in 1..(p - 1) : procs[q].pc # "idle"

\* The UPDATE of a flush sets the attributes whose value is not the one the
\* session loaded; a column assigned the value it was loaded with is left
\* as the row has it.
Flushed(current, loaded, new) == IF new = loaded THEN current ELSE new

\* routes/authors.py:37-80 and main.py:74-81: the author's row is inserted
\* with no credits used; a second profile for the user is refused
CreateAuthorProfile(serial) ==
    /\ Admit(serial)
    /\ ~author.present
    /\ author' = [present |-> TRUE, credits_used |-> 0,
                  credits_limit |-> DefaultCreditsLimit]
    /\ UNCHANGED <<segVars, vttVars, issued, jobs, procs>>

\* routes/narration.py:60-73; new_month: today is in a later month than
\* author.last_credit_reset
reset_credits_if_needed(a, new_month) ==
    IF new_month THEN [a EXCEPT !.credits_used = 0] ELSE a

\* routes/narration.py:131-146
GetCredits(serial) ==
    /\ Admit(serial)
    /\ author.present
    /\ \E new_month \in BOOLEAN : author' = reset_credits_if_needed(author, new_month)
    /\ UNCHANGED <<segVars, vttVars, issued, jobs, procs>>

\* routes/narration.py:157-162: the request reads the author's row and
\* resets the credits in a new month; the commit of the reset expires the
\* author object.  The slot holds the row the request is about to insert.
CreateRequest(serial) ==
    /\ Admit(serial)
    /\ author.present
    /\ IdsLeft > 0
    /\ \E p \in DOMAIN procs, t \in RequestTexts, is_published \in BOOLEAN,
          new_month \in BOOLEAN :
        /\ FirstIdle(p)
        /\ author' = reset_credits_if_needed(author, new_month)
        /\ procs' = [procs EXCEPT ![p] =
                        [IdleProc EXCEPT !.pc = "create",
                                         !.job_row = NewJob(t, is_published),
                                         !.credits_used = author.credits_used,
                                         !.expired = new_month]]
    /\ UNCHANGED <<segVars, vttVars, issued, jobs>>

\* routes/narration.py:164-195: the check reads the author object, loading
\* it again if the reset expired it, and the job is inserted or the request
\* answered 402
CreateJob(p) ==
    /\ procs[p].pc = "create"
    /\ LET credits_used == IF procs[p].expired THEN author.credits_used
                           ELSE procs[p].credits_used
           char_count == Len(procs[p].job_row.input_text)
       IN  IF credits_used + char_count > author.credits_limit
           THEN UNCHANGED <<jobs, issued>>
           ELSE /\ jobs' = WithRow(jobs, NextId, procs[p].job_row)
                /\ issued' = NextId
    /\ procs' = [procs EXCEPT ![p] = IdleProc]
    /\ UNCHANGED <<segVars, vttVars, admitted, author>>

\* routes/narration.py:222-225: the request reads the job's row
ProcRequest(serial) ==
    /\ Admit(serial)
    /\ \E p \in DOMAIN procs, j \in DOMAIN jobs :
        /\ FirstIdle(p)
        /\ procs' = [procs EXCEPT ![p] =
                        [IdleProc EXCEPT !.pc = "read", !.job = j,
                                         !.seen_status = jobs[j].status,
                                         !.job_row = jobs[j]]]
    /\ UNCHANGED <<segVars, vttVars, issued, jobs, author>>

\* Mutant: the request sets the job to processing whatever status it read.
ProcCheckAnyStatus(p) ==
    /\ procs[p].pc = "read"
    /\ IF procs[p].job \in DOMAIN jobs
       THEN /\ jobs' = [jobs EXCEPT ![procs[p].job].status = "processing"]
            /\ procs' = [procs EXCEPT ![p].pc = "started"]
       ELSE /\ procs' = [procs EXCEPT ![p].pc = "aborted"]
            /\ UNCHANGED jobs
    /\ UNCHANGED <<segVars, vttVars, admitted, issued, author>>

\* routes/narration.py:227-232.  The commit at 232 is outside the try: when
\* the row has been deleted since it was read, the UPDATE matches no row and
\* the request ends with that error.
ProcCheck(p) ==
    /\ procs[p].pc = "read"
    /\ IF procs[p].seen_status # "queued"
       THEN /\ procs' = [procs EXCEPT ![p].pc = "rejected"]
            /\ UNCHANGED jobs
       ELSE IF procs[p].job \in DOMAIN jobs
       THEN /\ jobs' = [jobs EXCEPT ![procs[p].job].status = "processing"]
            /\ procs' = [procs EXCEPT ![p].pc = "started"]
       ELSE /\ procs' = [procs EXCEPT ![p].pc = "aborted"]
            /\ UNCHANGED jobs
    /\ UNCHANGED <<segVars, vttVars, admitted, issued, author>>

\* routes/narration.py:236, job.author_id: the commit at 232 expired the job
\* object, and reading an attribute loads the row again, as it is by now,
\* or raises if it is gone
ProcReload(p) ==
    /\ procs[p].pc = "started"
    /\ IF procs[p].job \in DOMAIN jobs
       THEN procs' = [procs EXCEPT ![p] =
                        [@ EXCEPT !.job_row = jobs[procs[p].job],
                                  !.pc = "reloaded"]]
       ELSE procs' = [procs EXCEPT ![p].pc = "failing"]
    /\ UNCHANGED <<segVars, vttVars, admitted, issued, jobs, author>>

\* split_into_sentences on each text a queued job can hold, computed once
SplitOfJobText == [t \in JobTexts |-> split_into_sentences(t)]

\* Mutant: the author is charged for the text when the generation starts.
ProcSplitCharging(p) ==
    /\ procs[p].pc = "reloaded"
    /\ IF author.present
       THEN LET r == SplitOfJobText[procs[p].job_row.input_text]
            IN  /\ procs' = [procs EXCEPT ![p] =
                                [@ EXCEPT !.sentences = r.sentences,
                                          !.pc = IF r.raised \/ r.sentences = <<>>
                                                 THEN "failing" ELSE "generate"]]
                /\ author' = [author EXCEPT !.credits_used =
                                 @ + Len(procs[p].job_row.input_text)]
       ELSE /\ procs' = [procs EXCEPT ![p].pc = "failing"]
            /\ UNCHANGED author
    /\ UNCHANGED <<segVars, vttVars, admitted, issued, jobs>>

\* routes/narration.py:236-250: the query for the author's row, then the
\* split of the text as the job object holds it.  No author row raises the
\* 404 of line 238 inside the try, no sentence the 400 of line 244.
ProcSplit(p) ==
    /\ procs[p].pc = "reloaded"
    /\ IF author.present
       THEN LET r == SplitOfJobText[procs[p].job_row.input_text]
            IN  procs' = [procs EXCEPT ![p] =
                            [@ EXCEPT !.sentences = r.sentences,
                                      !.pc = IF r.raised \/ r.sentences = <<>>
                                             THEN "failing" ELSE "generate"]]
       ELSE procs' = [procs EXCEPT ![p].pc = "failing"]
    /\ UNCHANGED <<segVars, vttVars, admitted, issued, jobs, author>>

\* Mutant: the TypeError of the call leaves the handler, past the except
\* block.
ProcGenerateUncaught(p) ==
    /\ procs[p].pc = "generate"
    /\ procs' = [procs EXCEPT ![p].pc = "aborted"]
    /\ UNCHANGED <<segVars, vttVars, admitted, issued, jobs, author>>

\* routes/narration.py:252-263 with elevenlabs_client.py:37-45: in the first
\* iteration of the sentence loop the call passes model_id, a keyword
\* generate_audio_bytes does not have, and raises TypeError before the
\* provider is asked; the except of line 364 catches it
ProcGenerate(p) ==
    /\ procs[p].pc = "generate"
    /\ procs' = [procs EXCEPT ![p].pc = "failing"]
    /\ UNCHANGED <<segVars, vttVars, admitted, issued, jobs, author>>

\* Mutant: the except block charges the author for the text of the job.
ProcFailCharging(p) ==
    /\ procs[p].pc = "failing"
    /\ IF procs[p].job \in DOMAIN jobs
       THEN /\ jobs' = [jobs EXCEPT ![procs[p].job] =
                           [@ EXCEPT !.status = Flushed(@, procs[p].job_row.status, "failed"),
                                     !.error_message = TRUE]]
            /\ author' = [author EXCEPT !.credits_used =
                             @ + Len(procs[p].job_row.input_text)]
       ELSE UNCHANGED <<jobs, author>>
    /\ procs' = [procs EXCEPT ![p].pc = "failed"]
    /\ UNCHANGED <<segVars, vttVars, admitted, issued>>

\* routes/narration.py:364-370: the status and the error message are set on
\* the job object as line 236 loaded it and committed; with the job's row
\* gone the commit of line 367 writes nothing.  The database takes the
\* commit, as it takes the commits of the other handlers.
ProcFail(p) ==
    /\ procs[p].pc = "failing"
    /\ IF procs[p].job \in DOMAIN jobs
       THEN jobs' = [jobs EXCEPT ![procs[p].job] =
                        [@ EXCEPT !.status = Flushed(@, procs[p].job_row.status, "failed"),
                                  !.error_message = TRUE]]
       ELSE UNCHANGED jobs
    /\ procs' = [procs EXCEPT ![p].pc = "failed"]
    /\ UNCHANGED <<segVars, vttVars, admitted, issued, author>>

\* the response is sent: the HTTPException or the error
ProcReturn(p) ==
    /\ procs[p].pc \in {"rejected", "aborted", "failed"}
    /\ procs' = [procs EXCEPT ![p] = IdleProc]
    /\ UNCHANGED <<segVars, vttVars, admitted, issued, jobs, author>>

\* the steps of the process requests in flight
ProcSteps ==
    \E p \in DOMAIN procs :
        \/ ProcCheck(p)
        \/ ProcReload(p)
        \/ ProcSplit(p)
        \/ ProcGenerate(p)
        \/ ProcFail(p)
        \/ ProcReturn(p)

\* routes/narration.py:411-420: the request reads the job's row
PublishRequest(serial) ==
    /\ Admit(serial)
    /\ \E p \in DOMAIN procs, j \in DOMAIN jobs :
        /\ FirstIdle(p)
        /\ procs' = [procs EXCEPT ![p] =
                        [IdleProc EXCEPT !.pc = "publish", !.job = j,
                                         !.seen_status = jobs[j].status,
                                         !.job_row = jobs[j]]]
    /\ UNCHANGED <<segVars, vttVars, issued, jobs, author>>

\* routes/narration.py:422-434: a job read as not completed is refused;
\* else is_published is set and committed.  With the row gone the UPDATE
\* matches no row.
PublishEpisode(p) ==
    /\ procs[p].pc = "publish"
    /\ jobs' = IF procs[p].seen_status = "completed" /\ procs[p].job \in DOMAIN jobs
               THEN [jobs EXCEPT ![procs[p].job].is_published =
                        Flushed(@, procs[p].job_row.is_published, TRUE)]
               ELSE jobs
    /\ procs' = [procs EXCEPT ![p] = IdleProc]
    /\ UNCHANGED <<segVars, vttVars, admitted, issued, author>>

\* the second steps of the create and publish requests in flight
HandlerSteps ==
    \E p \in DOMAIN procs :
        \/ CreateJob(p)
        \/ PublishEpisode(p)

\* routes/narration.py:581-619, for a request that carries is_published.
\* What the handler reads decides only between 404 and the write.
UpdateEpisode(serial) ==
    /\ Admit(serial)
    /\ \E j \in DOMAIN jobs, is_published \in BOOLEAN :
        jobs' = [jobs EXCEPT ![j].is_published = is_published]
    /\ UNCHANGED <<segVars, vttVars, issued, author, procs>>

\* request bodies of create_uploaded_episode: a key that is missing reads
\* as False (is_published) or None (the urls)
UploadRequests ==
    {[is_published |-> FALSE, audio_url |-> "uploaded.mp3", vtt_url |-> "uploaded.vtt"],
     [is_published |-> TRUE, audio_url |-> "uploaded.mp3", vtt_url |-> NoUrl],
     [is_published |-> FALSE, audio_url |-> NoUrl, vtt_url |-> NoUrl]}

\* routes/narration.py:531-579
CreateUploadedEpisode(serial) ==
    /\ Admit(serial)
    /\ author.present
    /\ IdsLeft > 0
    /\ issued' = NextId
    /\ \E request \in UploadRequests :
        jobs' = WithRow(jobs, NextId,
                        [NewJob(TextUploaded, request.is_published) EXCEPT
                            !.status = "completed",
                            !.audio_url = request.audio_url,
                            !.vtt_url = request.vtt_url])
    /\ UNCHANGED <<segVars, vttVars, author, procs>>

\* routes/narration.py:623-670: the row is deleted whatever its status
DeleteEpisode(serial) ==
    /\ Admit(serial)
    /\ \E j \in DOMAIN jobs : jobs' = WithoutRow(jobs, j)
    /\ UNCHANGED <<segVars, vttVars, issued, author, procs>>

\* routes/authors.py:242-300: the handler deletes the author's objects in
\* the object store and then names GenerationJob (283), which the module
\* does not import (14): NameError, caught at 298, the session rolled
\* back and 500 answered.  No row is deleted.
DeleteAccount(serial) ==
    /\ Admit(serial)
    /\ author.present
    /\ UNCHANGED <<segVars, vttVars, jobs, author, issued, procs>>

\* one server process: requests are served one after another
NextJobs ==
    \/ CreateAuthorProfile(TRUE)
    \/ CreateRequest(TRUE)
    \/ GetCredits(TRUE)
    \/ ProcRequest(TRUE)
    \/ ProcSteps
    \/ PublishRequest(TRUE)
    \/ HandlerSteps
    \/ UpdateEpisode(TRUE)
    \/ CreateUploadedEpisode(TRUE)
    \/ DeleteEpisode(TRUE)
    \/ DeleteAccount(TRUE)

SpecJobs == InitJobs /\ [][NextJobs]_vars

\* tables of queued jobs waiting to be processed
QueuedTables ==
    {<<NewJob(t, FALSE)>> : t \in JobTexts}
        \cup {<<NewJob(t, FALSE), NewJob(u, FALSE)>> : t \in JobTexts, u \in JobTexts}

InitJobsLive ==
    /\ text = <<>>
    /\ paragraphs = <<>>
    /\ para_i = 1
    /\ parts = <<>>
    /\ part_i = 1
    /\ sentences = <<>>
    /\ seen_paragraph = FALSE
    /\ first_sentence_in_paragraph = FALSE
    /\ pc = "idle"
    /\ req = IdleVtt
    /\ out = IdleVtt
    /\ jobs \in QueuedTables
    /\ author \in {NoAuthor,
                   [present |-> TRUE, credits_used |-> 0,
                    credits_limit |-> DefaultCreditsLimit]}
    /\ issued = Len(jobs)
    /\ admitted = 0
    /\ procs = [p \in 1..MaxRequests |-> IdleProc]

\* one server working through process requests
NextJobsLive ==
    \/ ProcRequest(TRUE)
    \/ ProcSteps

\* a request that has begun is carried through: the handler is straight-line
\* code whose calls return or raise
SpecJobsLive == InitJobsLive /\ [][NextJobsLive]_vars /\ WF_vars(ProcSteps)

\* a table with one queued job, for the requests that race for it.  The
\* author's row is there: while it is not, the handlers of the author's jobs
\* answer 404 and only create_author_profile changes anything.
InitJobsConcurrent ==
    /\ text = <<>>
    /\ paragraphs = <<>>
    /\ para_i = 1
    /\ parts = <<>>
    /\ part_i = 1
    /\ sentences = <<>>
    /\ seen_paragraph = FALSE
    /\ first_sentence_in_paragraph = FALSE
    /\ pc = "idle"
    /\ req = IdleVtt
    /\ out = IdleVtt
    /\ \E is_published \in BOOLEAN : jobs = <<NewJob(TextOneClip, is_published)>>
    /\ \E limit \in AuthorLimits :
        author = [present |-> TRUE, credits_used |-> 0, credits_limit |-> limit]
    /\ issued = Len(jobs)
    /\ admitted = 0
    /\ procs = [p \in 1..MaxRequests |-> IdleProc]

\* several server processes: every handler can be served while other
\* requests are between their database statements
NextJobsConcurrent ==
    \/ CreateRequest(FALSE)
    \/ GetCredits(FALSE)
    \/ ProcRequest(FALSE)
    \/ ProcSteps
    \/ PublishRequest(FALSE)
    \/ HandlerSteps
    \/ UpdateEpisode(FALSE)
    \/ CreateUploadedEpisode(FALSE)
    \/ DeleteEpisode(FALSE)
    \/ DeleteAccount(FALSE)

SpecJobsConcurrent == InitJobsConcurrent /\ [][NextJobsConcurrent]_vars

(***************************************************************************)
(* The assembly loop (routes/narration.py:299-313), as a function of the   *)
(* clips, the sentences and the two silences                               *)
(***************************************************************************)
\* Mutant: the silence is added after each clip but the last.
RECURSIVE AssembleSilenceAfter(_, _, _, _, _)
AssembleSilenceAfter(audio_chunks, sents, k, silence_gap_ms, paragraph_silence_ms) ==
    IF k > Len(audio_chunks) \/ k > Len(sents) THEN <<>>
    ELSE <<[kind |-> "clip", text |-> audio_chunks[k].text, ms |-> audio_chunks[k].ms]>>
         \o (IF k < Len(sents)
              THEN <<[kind |-> "silence", text |-> <<>>,
                      ms |-> IF sents[k].paragraph_break_before
                             THEN paragraph_silence_ms ELSE silence_gap_ms]>>
              ELSE <<>>)
         \o AssembleSilenceAfter(audio_chunks, sents, k + 1, silence_gap_ms,
                                  paragraph_silence_ms)

\* routes/narration.py:299-313: `combined` after the clips and the sentences
\* from position k on, zipped, are added
RECURSIVE Assemble(_, _, _, _, _)
Assemble(audio_chunks, sents, k, silence_gap_ms, paragraph_silence_ms) ==
    IF k > Len(audio_chunks) \/ k > Len(sents) THEN <<>>
    ELSE (IF k > 1
          THEN <<[kind |-> "silence", text |-> <<>>,
                  ms |-> IF sents[k].paragraph_break_before
                         THEN paragraph_silence_ms ELSE silence_gap_ms]>>
          ELSE <<>>)
         \o <<[kind |-> "clip", text |-> audio_chunks[k].text, ms |-> audio_chunks[k].ms]>>
         \o Assemble(audio_chunks, sents, k + 1, silence_gap_ms, paragraph_silence_ms)

(***************************************************************************)
(* The components together                                                 *)
(***************************************************************************)
Init ==
    \/ InitSeg
    \/ InitVtt
    \/ InitAlign
    \/ InitFmt
    \/ InitJobs
    \/ InitJobsLive
    \/ InitJobsConcurrent

Next ==
    \/ NextSeg
    \/ NextVtt
    \/ NextAlign
    \/ NextFmt
    \/ NextJobs
    \/ NextJobsConcurrent

Spec == Init /\ [][Next]_vars

(***************************************************************************)
(* Properties of the alignment grouper                                     *)
(***************************************************************************)
\* the three sequences are not all non-empty and of equal length
MalformedAlignment(a) ==
    \/ ~a.present
    \/ a.characters = <<>>
    \/ Len(a.character_start_times_seconds) # Len(a.characters)
    \/ Len(a.character_end_times_seconds) # Len(a.characters)

\* C6: create_vtt_from_alignment returns an empty cue sequence, without
\* raising, whenever the characters, start times and end times are not all
\* non-empty and of equal length, or the alignment is absent.
C6_MalformedAlignmentGivesNoCues ==
    (req.kind = "alignment" /\ out.status # "idle"
        /\ MalformedAlignment(req.alignment_data)) =>
        (out.status = "ok" /\ out.cues = <<>>)

(***************************************************************************)
(* Properties of the segmenter                                             *)
(***************************************************************************)
NonSpaceOf(s) == SelectSeq(s, LAMBDA c : ~IsSpace(c))

RECURSIVE ConcatTexts(_)
ConcatTexts(sents) ==
    IF sents = <<>> THEN <<>> ELSE Head(sents).text \o ConcatTexts(Tail(sents))

\* A sentence that still holds a split point can only come from a merge.
HoldsMerge(sents) ==
    \E k \in 1..Len(sents) : \E j \in 2..Len(sents[k].text) :
        IsSpace(sents[k].text[j]) /\ sents[k].text[j - 1] \in SentenceEnd

EarlierParagraphSeen ==
    \E q \in 1..(para_i - 1) : Strip(paragraphs[q]) # <<>>

\* C7: the sentences returned by split_into_sentences, concatenated in order
\* with whitespace ignored, are exactly the non-whitespace characters of the
\* input in the same order.
C7_CharactersPreserved ==
    pc = "done" => NonSpaceOf(ConcatTexts(sentences)) = NonSpaceOf(text)

C7_Witness ==
    /\ pc = "done"
    /\ Len(sentences) >= 2
    /\ HoldsMerge(sentences)
    /\ \E k \in 1..Len(sentences) : sentences[k].paragraph_break_before

\* C8: a candidate that is not the first of its paragraph is space-joined to
\* the previous accepted sentence exactly when that sentence ends in a protected
\* abbreviation and the candidate does not start with a sentence-starter word,
\* and otherwise becomes a new sentence; "Dr. Smith arrived. He left." yields
\* "Dr. Smith arrived." and "He left.".
C8_MergeIffAbbreviationAndNotStarter ==
    /\ [][(pc = "part" /\ part_i <= Len(parts) /\ part_i > 1) =>
            LET part == Strip(parts[part_i])
                prev == Last(sentences)
            IN  IF SentenceEndsWithAbbreviation(prev.text) /\ ~StartsLikeNewSentence(part)
                THEN sentences' =
                        [sentences EXCEPT ![Len(sentences)] =
                            SentencePiece(prev.text \o <<" ">> \o part,
                                          prev.paragraph_break_before)]
                ELSE sentences' = Append(sentences, SentencePiece(part, FALSE))]_vars
    /\ [](pc = "done" /\ text = TextDrSmith =>
            sentences = <<SentencePiece(SubSeq(TextDrSmith, 1, 18), FALSE),
                          SentencePiece(SubSeq(TextDrSmith, 20, 27), FALSE)>>)

C8_Witness ==
    /\ pc = "done"
    /\ text = TextDrSmith
    /\ Len(sentences) = 2
    /\ HoldsMerge(sentences)

\* C9: a sentence is flagged paragraph_break_before exactly when it is the first
\* accepted sentence of its paragraph and an earlier non-empty paragraph has been
\* processed; a flag never changes afterwards, the first sentence of the text is
\* never flagged, and "Para one.\n\nPara two." yields flags FALSE, TRUE.
C9_ParagraphFlag ==
    /\ [][(pc = "part" /\ Len(sentences') = Len(sentences) + 1) =>
            (Last(sentences').paragraph_break_before
                <=> (part_i = 1 /\ EarlierParagraphSeen))]_vars
    /\ [][\A k \in 1..Len(sentences) :
            /\ k <= Len(sentences')
            /\ sentences'[k].paragraph_break_before = sentences[k].paragraph_break_before]_vars
    /\ [](sentences # <<>> => ~sentences[1].paragraph_break_before)
    /\ [](pc = "done" /\ text = TextTwoParas =>
            /\ Len(sentences) = 2
            /\ ~sentences[1].paragraph_break_before
            /\ sentences[2].paragraph_break_before)

C9_Witness ==
    /\ pc = "done"
    /\ text = TextTwoParas
    /\ Len(sentences) = 2
    /\ sentences[2].paragraph_break_before

\* C10: split_into_sentences never raises, and returns the empty list when the
\* input is empty or holds only whitespace.
C10_NeverRaisesAndEmptyOnBlank ==
    /\ pc # "raised"
    /\ (pc = "done" /\ AllSpace(text)) => sentences = <<>>

C10_Witness ==
    /\ pc = "done"
    /\ AllSpace(text)
    /\ Len(paragraphs) >= 2
    /\ sentences = <<>>

\* C11: every sentence returned by split_into_sentences has a non-empty text
\* without leading or trailing whitespace, after any number of merges; so the
\* total character count is zero only for the empty sentence list.
C11_SentencesTrimmedAndNonEmpty ==
    /\ \A k \in 1..Len(sentences) :
        /\ sentences[k].text # <<>>
        /\ ~IsSpace(sentences[k].text[1])
        /\ ~IsSpace(Last(sentences[k].text))
    /\ SumLen(sentences) = 0 <=> sentences = <<>>

C11_Witness ==
    /\ pc = "done"
    /\ text = TextPaddedMerges
    /\ Len(sentences) = 2
    /\ Len(sentences[1].text) = 12
    /\ SumLen(sentences) = 13

(***************************************************************************)
(* Further properties of the segmenter                                     *)
(***************************************************************************)
NonEmptyParagraphs == {q \in 1..Len(paragraphs) : Strip(paragraphs[q]) # <<>>}

FlaggedSentences == {k \in 1..Len(sentences) : sentences[k].paragraph_break_before}

\* C24: split_into_sentences never merges across a paragraph boundary: the
\* first candidate of every paragraph starts a new sentence, also when the
\* previous sentence ends in a protected abbreviation and the candidate does
\* not begin with a sentence starter; so, for a text with a non-empty
\* paragraph, the flagged sentences are one fewer than the non-empty
\* paragraphs.
C24_NoMergeAcrossParagraphs ==
    /\ [][(pc = "part" /\ part_i = 1) =>
            sentences' = Append(sentences,
                                SentencePiece(Strip(parts[1]), EarlierParagraphSeen))]_vars
    /\ []((pc = "done" /\ NonEmptyParagraphs # {}) =>
            Cardinality(FlaggedSentences) = Cardinality(NonEmptyParagraphs) - 1)
    /\ []((pc = "done" /\ text = TextAbbrevAtParaEnd) =>
            sentences = <<SentencePiece(SubSeq(TextAbbrevAtParaEnd, 1, 7), FALSE),
                          SentencePiece(SubSeq(TextAbbrevAtParaEnd, 10, 15), TRUE)>>)

C24_Witness ==
    /\ pc = "done"
    /\ text = TextAbbrevAtParaEnd
    /\ Len(sentences) = 2
    /\ SentenceEndsWithAbbreviation(sentences[1].text)
    /\ ~StartsLikeNewSentence(sentences[2].text)
    /\ Cardinality(FlaggedSentences) = 1

(***************************************************************************)
(* Further properties of the synthesizers                                  *)
(***************************************************************************)
\* C12: a synthesizer emits exactly one cue per sentence, in input order: n
\* sentences give n cues numbered 1..n, and cue i carries the text of sentence i.
C12_OneCuePerSentence ==
    out.status = "ok" =>
        /\ Len(out.cues) = Len(RequestSentences)
        /\ Len(out.written) = Len(RequestSentences)
        /\ \A k \in 1..Len(out.cues) :
            /\ out.cues[k].index = k
            /\ out.cues[k].text = RequestSentences[k].text
            /\ out.written[k].index = k
            /\ out.written[k].text = RequestSentences[k].text

C12_Witness ==
    /\ out.status = "ok"
    /\ req.kind = "simple"
    /\ Len(out.cues) = 3
    /\ out.cues[1].text # out.cues[2].text
    /\ out.cues[2].text # out.cues[3].text
    /\ out.cues[3].index = 3

\* the speaking time allocated to sentence k, in the call's time unit
SpeechLength(k) ==
    IF req.kind = "simple" THEN req.duration_ms * Len(RequestSentences[k].text)
    ELSE req.durations[k]

\* the request of req with other lead-in and lead-out
CallWithLeads(lead_in_ms, lead_out_ms) ==
    IF req.kind = "simple"
    THEN create_simple_vtt(req.text, req.duration_ms, lead_in_ms, lead_out_ms,
                           req.cfg.paragraph_gap, req.cfg.gap)
    ELSE create_vtt_from_real_durations(req.sentences, req.durations, 1, lead_in_ms,
                                        lead_out_ms, req.cfg.paragraph_gap, req.cfg.gap)

\* cue k ends later than its speech less the lead-out: it was extended to the
\* minimum duration
Extended(k) == out.cues[k].end > out.walk[k].audio_end - req.cfg.lead_out * out.scale

\* C17: the lead effects do not perturb the audio cursor: audio_time and
\* audio_end of every sentence are the same for every choice of lead-in and
\* lead-out, and each sentence advances the cursor by its speaking time alone,
\* whether or not its cue was extended or clamped.
C17_LeadsLeaveCursorAlone ==
    out.status = "ok" =>
        /\ \A c \in Configs :
            /\ CallWithLeads(c.lead_in, c.lead_out).walk = out.walk
            /\ CallWithLeads(c.lead_in, c.lead_out).audio_time = out.audio_time
        /\ \A k \in 1..Len(out.walk) :
            /\ out.walk[k].audio_end = out.walk[k].audio_time + SpeechLength(k)
            /\ k < Len(out.walk) => out.walk[k + 1].audio_time >= out.walk[k].audio_end
            /\ k < Len(out.walk) =>
                   out.walk[k + 1].audio_time - out.walk[k].audio_end
                       \in {0, req.cfg.gap * out.scale, req.cfg.paragraph_gap * out.scale}
        /\ out.walk # <<>> => out.audio_time = Last(out.walk).audio_end

C17_Witness ==
    /\ out.status = "ok"
    /\ req.kind = "simple"
    /\ req.cfg.lead_in > 0
    /\ req.cfg.lead_out > 0
    /\ Len(out.cues) >= 3
    /\ Extended(1)
    /\ Clamped(2)
    /\ out.walk[3].audio_time > out.walk[2].audio_end

\* the speaking time of sentences 1..k together
RECURSIVE SpeechUpTo(_)
SpeechUpTo(k) == IF k = 0 THEN 0 ELSE SpeechUpTo(k - 1) + SpeechLength(k)

\* the sentences after the first that start a paragraph, and the others
ParagraphStarts ==
    {k \in 2..Len(RequestSentences) : RequestSentences[k].paragraph_break_before}

SentenceStarts ==
    {k \in 2..Len(RequestSentences) : ~RequestSentences[k].paragraph_break_before}

\* C18: no gap is added before the first sentence; before every later
\* sentence exactly one gap is added to the audio cursor, the paragraph gap if
\* the sentence starts a paragraph and the sentence gap otherwise; so the
\* final cursor is the speaking time plus the paragraph gap for each
\* paragraph start and the sentence gap for each other sentence after the
\* first.
C18_OneGapBeforeEachLaterSentence ==
    out.status = "ok" =>
        /\ out.walk # <<>> => out.walk[1].audio_time = 0
        /\ \A k \in 2..Len(out.walk) :
               out.walk[k].audio_time - out.walk[k - 1].audio_end
                   = (IF k \in ParagraphStarts THEN req.cfg.paragraph_gap
                      ELSE req.cfg.gap) * out.scale
        /\ out.audio_time =
               SpeechUpTo(Len(out.walk))
               + (Cardinality(ParagraphStarts) * req.cfg.paragraph_gap
                  + Cardinality(SentenceStarts) * req.cfg.gap) * out.scale

C18_Witness ==
    /\ out.status = "ok"
    /\ Len(out.walk) = 3
    /\ req.cfg.gap > 0
    /\ req.cfg.paragraph_gap > req.cfg.gap
    /\ ParagraphStarts = {3}
    /\ SentenceStarts = {2}
    /\ SpeechUpTo(3) > 0
    /\ out.audio_time = SpeechUpTo(3) + (req.cfg.paragraph_gap + req.cfg.gap) * out.scale

\* the characters of the texts of sentences 1..k
RECURSIVE CharsUpTo(_)
CharsUpTo(k) == IF k = 0 THEN 0 ELSE CharsUpTo(k - 1) + Len(RequestSentences[k].text)

\* the speaking-time slices of sentences 1..k together
RECURSIVE SlicesUpTo(_)
SlicesUpTo(k) ==
    IF k = 0 THEN 0
    ELSE SlicesUpTo(k - 1) + (out.walk[k].audio_end - out.walk[k].audio_time)

\* C19: in estimated-duration mode the slice of a sentence is
\* duration * len(sentence) / total_chars, the slices sum to the duration, and
\* the gaps come on top: the final audio cursor is the duration plus the
\* inserted gaps.  (A time t of out stands for t / (1000 * total_chars) s.)
C19_SlicesPartitionTheBudget ==
    (req.kind = "simple" /\ out.status = "ok" /\ out.cues # <<>>) =>
        /\ out.scale = CharsUpTo(Len(RequestSentences))
        /\ \A k \in 1..Len(out.walk) :
               out.walk[k].audio_end - out.walk[k].audio_time
                   = req.duration_ms * Len(RequestSentences[k].text)
        /\ SlicesUpTo(Len(out.walk)) = req.duration_ms * out.scale
        /\ out.audio_time = (req.duration_ms + InsertedGapsMs) * out.scale

C19_Witness ==
    /\ req.kind = "simple"
    /\ out.status = "ok"
    /\ Len(out.cues) = 3
    /\ req.duration_ms = 3000
    /\ InsertedGapsMs = 750
    /\ out.scale = 7
    /\ out.walk[1].audio_end - out.walk[1].audio_time = 6000
    /\ out.walk[2].audio_end - out.walk[2].audio_time = 9000
    /\ out.audio_time = 3750 * 7

\* audio_time - lead_in of sentence k, floored at 0
LeadInStart(k) == Max(0, out.walk[k].audio_time - req.cfg.lead_in * out.scale)

\* C20: every cue starts at max(0, audio_time - lead_in) unless it was
\* clamped to the end of the previous cue; so no cue start is negative, the
\* first cue starts at exactly 0 (for lead_in >= 0), and no cue starts
\* earlier than lead_in before its speech begins.
C20_CueStartFlooredLeadIn ==
    out.status = "ok" =>
        \A k \in 1..Len(out.cues) :
            /\ \/ out.cues[k].start = LeadInStart(k)
               \/ /\ k >= 2
                  /\ LeadInStart(k) < out.cues[k - 1].end
                  /\ out.cues[k].start = out.cues[k - 1].end
            /\ out.cues[k].start >= 0
            /\ (k = 1 /\ req.cfg.lead_in >= 0) => out.cues[k].start = 0
            /\ out.cues[k].start >= out.walk[k].audio_time - req.cfg.lead_in * out.scale
            /\ out.written[k].start >= 0
            /\ (k = 1 /\ req.cfg.lead_in >= 0) => out.written[k].start = 0
            /\ NearestMs(out.written[k].start, out.cues[k].start)

C20_Witness ==
    /\ out.status = "ok"
    /\ req.kind = "real"
    /\ req.cfg.lead_in = 500
    /\ Len(out.cues) = 3
    /\ out.cues[1].start = 0
    /\ Clamped(2)
    /\ ~Clamped(3)
    /\ out.cues[3].start = out.walk[3].audio_time - 500
    /\ out.cues[3].start > 0

(***************************************************************************)
(* Further properties of the alignment grouper                             *)
(***************************************************************************)
CeilDiv(a, b) == (a + b - 1) \div b

\* the words of out are grouped into windows of WORDS_PER_CAPTION words, one
\* cue per window
GroupedInWindows ==
    LET W == Len(out.words)
    IN  /\ Len(out.cues) = CeilDiv(W, WORDS_PER_CAPTION)
        /\ \A k \in 1..Len(out.cues) :
            LET first == WORDS_PER_CAPTION * (k - 1) + 1
                last == IF k < Len(out.cues) THEN WORDS_PER_CAPTION * k ELSE W
            IN  /\ first <= last
                /\ out.cues[k].index = k
                /\ out.cues[k].start = out.words[first].start
                /\ out.cues[k].end = out.words[last].end
                /\ out.cues[k].text = JoinWords(SubSeq(out.words, first, last))

\* a call that went through the character loop without raising
GroupedCall ==
    /\ req.kind = "alignment"
    /\ out.status = "ok"
    /\ req.alignment_data.present
    /\ req.alignment_data.characters # <<>>
    /\ req.alignment_data.character_start_times_seconds # <<>>
    /\ req.alignment_data.character_end_times_seconds # <<>>

\* C13 as stated: W words are grouped into ceil(W / 8) cues of 8 consecutive
\* words (the last possibly shorter), each from its first word's start to its
\* last word's end with the words joined by single spaces; at most 8 words
\* give exactly one cue from the first character's start to the last
\* character's end.
C13_OneCueSpansAllCharacters ==
    GroupedCall =>
        /\ GroupedInWindows
        /\ Len(out.words) <= WORDS_PER_CAPTION =>
            /\ Len(out.cues) = 1
            /\ out.cues[1].start = req.alignment_data.character_start_times_seconds[1]
            /\ out.cues[1].end =
                   req.alignment_data.character_end_times_seconds[
                       Len(req.alignment_data.characters)]

\* C13, amended: the grouping as stated; 1 to 8 words give exactly one cue
\* from the first word's start to the last word's end, which are the first
\* character's start and the last character's end when the stream neither
\* begins nor ends with whitespace.
C13_OneCueSpansAllWords ==
    GroupedCall =>
        /\ GroupedInWindows
        /\ Len(out.words) \in 1..WORDS_PER_CAPTION =>
            /\ Len(out.cues) = 1
            /\ out.cues[1].start = out.words[1].start
            /\ out.cues[1].end = Last(out.words).end
            /\ ~IsSpace(req.alignment_data.characters[1]) =>
                   out.cues[1].start =
                       req.alignment_data.character_start_times_seconds[1]
            /\ ~IsSpace(Last(req.alignment_data.characters)) =>
                   out.cues[1].end =
                       req.alignment_data.character_end_times_seconds[
                           Len(req.alignment_data.characters)]

C13_Witness ==
    /\ GroupedCall
    /\ req.alignment_data.characters = AlignHiThere
    /\ Len(out.words) = 2
    /\ Len(out.cues) = 1
    /\ out.cues[1].text = AlignHiThere
    /\ out.cues[1].start = 0
    /\ out.cues[1].end = 880

Whitespace == {c \in AlignAlphabet \cup WhitespaceChars : IsSpace(c)}

Punctuation == {".", ",", "!", "?", ";", ":"}

\* The words of alignment a when a word ends at every character of B and at
\* the end of the stream: each maximal run of characters up to and including
\* a boundary is a word from its first character's start to its last
\* character's end, kept unless it is whitespace only.
WordsAtBoundaries(a, B) ==
    LET chars == a.characters
        bs == {i \in 1..Len(chars) : chars[i] \in B \/ i = Len(chars)}
        Prev(b) == IF \E x \in bs : x < b
                   THEN CHOOSE x \in bs : x < b /\ \A y \in bs : y < b => y <= x
                   ELSE 0
        Run(b) == SubSeq(chars, Prev(b) + 1, b)
        Word(b) == [text |-> Strip(Run(b)),
                    start |-> a.character_start_times_seconds[Prev(b) + 1],
                    end |-> a.character_end_times_seconds[b]]
        RECURSIVE Build(_)
        Build(i) == IF i = 0 THEN <<>>
                    ELSE Build(i - 1)
                         \o (IF i \in bs /\ ~AllSpace(Run(i)) THEN <<Word(i)>> ELSE <<>>)
    IN  Build(Len(chars))

\* a call on an alignment that passes validation: the three lists are
\* non-empty and of equal length
WellFormedCall ==
    /\ GroupedCall
    /\ ~MalformedAlignment(req.alignment_data)

\* C14 as stated: a word ends at every whitespace character, at each of
\* . , ! ? ; : and at the end of the stream; a word runs from its first
\* character's start to its last character's end, the boundary character
\* included, and whitespace-only words are discarded.
C14_WordsEndAtWhitespaceAndPunctuation ==
    WellFormedCall =>
        out.words = WordsAtBoundaries(req.alignment_data, Whitespace \cup Punctuation)

\* C14, amended: a word ends at every space character (not at a tab or a
\* newline), at each of . , ! ? ; : and at the end of the stream; the rest as
\* stated.
C14_WordsEndAtSpaceAndPunctuation ==
    WellFormedCall =>
        out.words = WordsAtBoundaries(req.alignment_data, {" "} \cup Punctuation)

C14_Witness ==
    /\ WellFormedCall
    /\ req.alignment_data.characters = <<" ", "h", ",">>
    /\ Len(req.alignment_data.character_start_times_seconds) = 3
    /\ out.words = <<[text |-> <<"h", ",">>, start |-> 100, end |-> 280]>>

(***************************************************************************)
(* Properties of the timestamp formatter                                   *)
(***************************************************************************)
\* the number written in s[from..to]; -1 if a character there is no digit
RECURSIVE NumberIn(_, _, _)
NumberIn(s, from, to) ==
    IF from > to THEN 0
    ELSE LET d == {k \in 1..10 : DigitChars[k] = s[to]}
             rest == NumberIn(s, from, to - 1)
         IN  IF d = {} \/ rest < 0 THEN -1 ELSE 10 * rest + (CHOOSE k \in d : TRUE) - 1

\* C15: format_timestamp renders a non-negative time as HH:MM:SS.mmm: two
\* digits of hours, two of minutes (0-59), two of seconds (0-59) and three of
\* milliseconds, the hours and minutes by integer division of the seconds
\* and the rest from the remainder.
C15_TimestampShape ==
    (req.kind = "format" /\ out.status = "ok") =>
        LET s == out.stamp
        IN  /\ Len(s) = 12
            /\ s[3] = ":" /\ s[6] = ":" /\ s[9] = "."
            /\ NumberIn(s, 1, 2) = req.thirds \div 10800000
            /\ NumberIn(s, 4, 5) = (req.thirds % 10800000) \div 180000
            /\ NumberIn(s, 4, 5) \in 0..59
            /\ NumberIn(s, 7, 8) \in 0..59
            /\ NumberIn(s, 10, 12) \in 0..999

\* 3661.005 s is rendered as 01:01:01.005
C15_Example ==
    (req.kind = "format" /\ out.status = "ok" /\ req.thirds = 10983015) =>
        out.stamp = <<"0","1",":","0","1",":","0","1",".","0","0","5">>

(***************************************************************************)
(* Properties of the narration jobs                                        *)
(***************************************************************************)
\* the clips of an assembled track, without the silences
ClipsOf(track) == SelectSeq(track, LAMBDA seg : seg.kind = "clip")

\* len(combined), in milliseconds
RECURSIVE TrackLength(_)
TrackLength(track) ==
    IF track = <<>> THEN 0 ELSE Head(track).ms + TrackLength(Tail(track))

\* where the i-th clip begins in the track, in milliseconds
OffsetOfClip(track, i) ==
    LET n == CHOOSE n \in 1..Len(track) :
                 track[n].kind = "clip" /\ Len(ClipsOf(SubSeq(track, 1, n))) = i
    IN  TrackLength(SubSeq(track, 1, n - 1))

\* the clips of a real-duration request: clip i holds sentence i and lasts
\* the duration given for it
ClipsOfRequest ==
    [i \in 1..Len(req.sentences) |->
        [text |-> req.sentences[i].text, ms |-> req.durations[i]]]

\* C23: the real-duration timeline tracks the assembled audio: with the
\* durations being the lengths of the clips and the gaps the silences of the
\* assembler, the audio cursor at the start of sentence i is the offset at
\* which clip i begins in the assembled track, the cursor after it the end
\* of the clip, and the final cursor is the length of the track.
C23_CursorTracksAssembledAudio ==
    (req.kind = "real" /\ out.status = "ok") =>
        LET combined == Assemble(ClipsOfRequest, req.sentences, 1,
                                 req.cfg.gap, req.cfg.paragraph_gap)
        IN  /\ \A i \in 1..Len(req.sentences) :
                /\ out.walk[i].audio_time = out.scale * OffsetOfClip(combined, i)
                /\ out.walk[i].audio_end
                       = out.scale * (OffsetOfClip(combined, i) + ClipsOf(combined)[i].ms)
            /\ out.audio_time = out.scale * TrackLength(combined)
            /\ TrackLength(combined)
                   = AssembledLength(req.sentences, req.durations,
                                     req.cfg.gap, req.cfg.paragraph_gap)

C23_Witness ==
    /\ req.kind = "real"
    /\ out.status = "ok"
    /\ req.cfg.gap = 150
    /\ req.cfg.paragraph_gap = 600
    /\ req.durations = <<200, 1000, 200>>
    /\ ~req.sentences[2].paragraph_break_before
    /\ req.sentences[3].paragraph_break_before
    /\ out.walk[2].audio_time = 350
    /\ out.walk[3].audio_time = 1950
    /\ out.audio_time = 2150

StatusMoves ==
    {<<"queued", "processing">>, <<"processing", "completed">>,
     <<"processing", "failed">>}

\* C25: a job's status only moves queued -> processing -> completed or
\* queued -> processing -> failed: a process request for a job that is not
\* queued is rejected and leaves the job as it is, and a completed or failed
\* job keeps its status through any sequence of process requests.
C25_StatusMovesForward ==
    /\ [][\A j \in DOMAIN jobs \cap DOMAIN jobs' :
            \/ jobs'[j].status = jobs[j].status
            \/ <<jobs[j].status, jobs'[j].status>> \in StatusMoves]_vars
    /\ [][\A p \in DOMAIN procs :
            (procs[p].pc = "read" /\ procs'[p].pc # "read"
                /\ procs[p].job \in DOMAIN jobs
                /\ jobs[procs[p].job].status # "queued") =>
                (procs'[p].pc = "rejected" /\ jobs' = jobs)]_vars

\* a process request finds the job failed by an earlier request and is
\* rejected; the job is as the earlier request left it
C25_Witness ==
    \E p \in DOMAIN procs :
        /\ procs[p].pc = "rejected"
        /\ procs[p].seen_status = "failed"
        /\ procs[p].job \in DOMAIN jobs
        /\ jobs[procs[p].job] = procs[p].job_row
        /\ jobs[procs[p].job].error_message

\* the request has passed the status check for its job
PastCheck(r) == r.pc \in {"started", "reloaded", "generate", "failing", "failed"}

\* C26: a job is processed at most once: of the process requests for one
\* job at most one passes the status check and generates, uploads and
\* charges.
C26_ProcessedAtMostOnce ==
    \A j \in 1..MaxJobs :
        Cardinality({p \in DOMAIN procs : procs[p].job = j /\ PastCheck(procs[p])}) <= 1

\* C27: the author's credits_used never exceeds credits_limit.
C27_CreditsWithinLimit == author.credits_used <= author.credits_limit

\* a job whose text takes the whole limit has been processed, and a create
\* request for a text longer than the limit is about to be refused
C27_Witness ==
    /\ author.present
    /\ \E j \in DOMAIN jobs :
        /\ jobs[j].status = "failed"
        /\ Len(jobs[j].input_text) = author.credits_limit
    /\ \E p \in DOMAIN procs :
        /\ procs[p].pc = "create"
        /\ author.credits_used + Len(procs[p].job_row.input_text) > author.credits_limit

\* job j becomes completed / failed in this step
ReachesCompleted(j) == jobs[j].status # "completed" /\ jobs'[j].status = "completed"

ReachesFailed(j) == jobs[j].status # "failed" /\ jobs'[j].status = "failed"

\* this step is a step of a process request
ProcessStep ==
    \E p \in DOMAIN procs :
        /\ procs'[p] # procs[p]
        /\ procs[p].pc \notin {"idle", "create", "publish"}

\* C28: credits are charged only for completed jobs: a process request adds
\* len(input_text) to credits_used exactly in the step in which its job
\* becomes completed, no other step of a process request touches
\* credits_used, audio_url or vtt_url, and a job that ends failed has the
\* audio_url and vtt_url it was queued with, which are none.
C28_ChargedOnlyOnCompletion ==
    /\ [][\A j \in DOMAIN jobs \cap DOMAIN jobs' :
            /\ ReachesCompleted(j) =>
                   author'.credits_used = author.credits_used + Len(jobs[j].input_text)
            /\ ReachesFailed(j) =>
                /\ author' = author
                /\ jobs'[j].audio_url = jobs[j].audio_url
                /\ jobs'[j].vtt_url = jobs[j].vtt_url]_vars
    /\ [][(ProcessStep /\ \A j \in DOMAIN jobs \cap DOMAIN jobs' : ~ReachesCompleted(j)) =>
            /\ author' = author
            /\ \A k \in DOMAIN jobs \cap DOMAIN jobs' :
                /\ jobs'[k].audio_url = jobs[k].audio_url
                /\ jobs'[k].vtt_url = jobs[k].vtt_url]_vars
    /\ [](\A j \in DOMAIN jobs :
            jobs[j].status = "failed" =>
                (jobs[j].audio_url = NoUrl /\ jobs[j].vtt_url = NoUrl))

\* a request has failed at the provider call: its job is failed with no
\* urls, and the author has the credits of before
C28_Witness ==
    \E p \in DOMAIN procs :
        /\ procs[p].pc = "failed"
        /\ procs[p].sentences # <<>>
        /\ procs[p].job \in DOMAIN jobs
        /\ jobs[procs[p].job].status = "failed"
        /\ jobs[procs[p].job].audio_url = NoUrl
        /\ jobs[procs[p].job].vtt_url = NoUrl
        /\ author.present
        /\ author.credits_used = 0

\* C29: every job that a process request moves to processing eventually
\* leaves that state, completed or failed, whatever step fails.
C29_ProcessingEnds ==
    \A j \in 1..MaxJobs :
        (j \in DOMAIN jobs /\ jobs[j].status = "processing")
            ~> (j \in DOMAIN jobs /\ jobs[j].status \in {"completed", "failed"})

\* the second job of the table has been failed by the TypeError of the
\* provider call, after the first was failed for having no sentence
C29_Witness ==
    \E p \in DOMAIN procs :
        /\ procs[p].pc = "failed"
        /\ procs[p].job = 2
        /\ Len(procs[p].sentences) = 3
        /\ DOMAIN jobs = {1, 2}
        /\ jobs[1].status = "failed"
        /\ jobs[1].input_text = TextBlank
        /\ jobs[2].status = "failed"

\* C30: an episode with is_published = true always has status completed.
C30_PublishedIsCompleted ==
    \A j \in DOMAIN jobs : jobs[j].is_published => jobs[j].status = "completed"

====
